---------------------------- MODULE Spec2Model ----------------------------
(***************************************************************************)
(* A model of the session orchestrator of src/src/bot/session_manager.py:  *)
(* the Session Registry (class SessionManager) and the Session Process     *)
(* (class ClaudeCodeProcess).                                              *)
(*                                                                         *)
(* Eleven specifications share this module.                                *)
(*   Spec      the registry: several sessions, several process objects and *)
(*             two registry coroutines interleaved at their awaits.        *)
(*   ProcSpec  one Session Process in detail: pseudo-terminal descriptors, *)
(*             the background read task, the output queue, terminate, and  *)
(*             the stream of one send_message at a time.                   *)
(*   ProcLive  ProcSpec with weak fairness of the send_message generator.  *)
(*   InputSpec the Session Process with direct send_input calls.           *)
(*   FlushSpec the read loop with its clock and the size of its buffer.    *)
(*   YieldSpec the Session Process of one session beside the registry      *)
(*             coroutines of other sessions, on one event loop.            *)
(*   DocSpec   classify_response and parse_prompt applied to short texts.  *)
(*   SanSpec   the sanitizer (ANSI_ESCAPE.sub) applied to short strings.   *)
(*   ReadSpec  the read loop with the characters it reads and buffers.     *)
(*   FdSpec    the controlling descriptor with the reads and writes that   *)
(*             run on it in executor threads.                              *)
(*   AuthSpec  the authorization wrapper around the bot's handlers.        *)
(* Each specification leaves the other parts' variables at their initial   *)
(* value.                                                                  *)
(***************************************************************************)
EXTENDS Naturals, Sequences, FiniteSets

\* ------------------------------------------------------------------ bounds
\* identifiers createSession may allocate (uuid4 values, taken in order)
MaxSessions == 2
\* ClaudeCodeProcess objects that may be constructed and started
MaxProcs == 3
\* registry operations invoked in one run
MaxOps == 3

Sids == 1..MaxSessions
Users == {1, 2}
Procs == 1..MaxProcs
\* registry coroutines in flight at once: two slots
Calls == {1, 2}

\* ------------------------------------------------------- registry: state
VARIABLES
  db,        \* the sessions table: Sids -> record, or NoRecord
  sessions,  \* SessionManager.sessions: Sids -> process object, 0 = no entry
  active,    \* SessionManager.active_sessions: Users -> session id, 0 = unset
  procs,     \* the ClaudeCodeProcess objects ever constructed and started
  calls,     \* the registry coroutines in flight, one frame per slot
  ops        \* the number of registry operations invoked so far

regVars == <<db, sessions, active, procs, calls, ops>>

\* ------------------------------------------------ Session Process: state
VARIABLES
  cp,       \* the ClaudeCodeProcess object and its two descriptors
  pty,      \* the terminal: chunks written by the program and not yet read
  flushed,  \* every Output Unit put on the queue, in order
  yielded,  \* every Output Unit read_output has yielded, in order
  snd,      \* the send_message generator in progress
  term      \* the terminate() coroutines

procVars == <<cp, pty, flushed, yielded, snd, term>>

\* ------------------------------------------- the read loop with its clock
VARIABLES
  rl        \* _read_output with the loop clock: times, buffer size, queue

\* ------------------------------------------------------- the text functions
VARIABLES
  doc,      \* a text given to classify_response and parse_prompt, and results
  tx,       \* a string given to the sanitizer, and its result
  rd        \* _read_output with the contents of the reads and of the buffer

textVars == <<doc, tx, rd>>

\* ------------------------------------- the descriptor and the worker threads
VARIABLES
  fdx       \* the controlling descriptor of one process and the calls on it
            \* that run in executor threads

\* ------------------------------------------------- the authorization wrapper
VARIABLES
  gate      \* the BotHandlers object, the update its wrapper works on, the
            \* handlers reached and the audit log

vars == <<db, sessions, active, procs, calls, ops, cp, pty, flushed, yielded, snd, term, rl, doc, tx, rd, fdx, gate>>

\* ws is the workspace path, named by the identifier it was derived from.
NoRecord == [user |-> 0, ws |-> 0, status |-> "none", pid |-> 0, act |-> "none"]

\* A process object that was never constructed.
NoProc == [sid |-> 0, ws |-> 0, st |-> "unused"]

IdleFrame ==
  [op |-> "idle", pc |-> "idle", sid |-> 0, user |-> 0, proc |-> 0,
   newp |-> 0, found |-> FALSE, wrote |-> FALSE, hasOut |-> FALSE,
   synth |-> FALSE, ret |-> "none", ovl |-> FALSE]

\* ClaudeCodeProcess.is_alive: started and returncode is None.
is_alive(p) == procs[p].st = "running"

\* DatabaseManager.get_session: the row, or None.
get_session(s) == db[s]

RecordExists(s) == db[s].status # "none"

\* DatabaseManager.update_session(status=..., pid=..., last_activity=...):
\* an UPDATE ... WHERE id = s, which changes nothing when no row matches.
\* A field given as "keep" / 0 is left as it is. The time written to
\* last_activity is represented by the operation that wrote it.
update_session(s, status, pid, act) ==
  IF RecordExists(s)
  THEN [db EXCEPT ![s] =
          [user |-> @.user, ws |-> @.ws,
           status |-> IF status = "keep" THEN @.status ELSE status,
           pid |-> IF pid = 0 THEN @.pid ELSE pid,
           act |-> IF act = "keep" THEN @.act ELSE act]]
  ELSE db

\* The next uuid4: an identifier no record has.
FreshSids == {s \in Sids : ~RecordExists(s) /\ \A t \in Sids : t < s => RecordExists(t)}

\* The next process object to construct.
FreshProcs == {p \in Procs : procs[p].st = "unused" /\ \A r \in Procs : r < p => procs[r].st # "unused"}

\* A coroutine slot is free when no coroutine is running in it (it is idle or
\* holds the result of a finished one); an invocation takes the lowest such.
Free(c) == calls[c].pc \in {"idle", "done"}

FreeSlot(c) == Free(c) /\ ops < MaxOps /\ \A d \in Calls : d < c => ~Free(d)

\* The frame of a finished coroutine: its operation, arguments and result.
Done(f, r) ==
  [IdleFrame EXCEPT !.op = f.op, !.pc = "done", !.sid = f.sid, !.wrote = f.wrote,
                    !.ovl = f.ovl, !.ret = r]

\* Another coroutine on session s is in flight beside slot c.
Overlaps(c, s) == \E d \in Calls \ {c} : ~Free(d) /\ calls[d].sid = s

\* The coroutine frames once frame f is entered in slot c. The field ovl
\* records history only: it is set in f, and in the frames in flight on the
\* same session, when f is invoked while such a frame is in flight.
Enter(c, f) ==
  [d \in Calls |->
     IF d = c THEN [f EXCEPT !.ovl = Overlaps(c, f.sid)]
     ELSE IF ~Free(d) /\ calls[d].sid = f.sid THEN [calls[d] EXCEPT !.ovl = TRUE]
     ELSE calls[d]]

\* ClaudeCodeProcess(session_id=s, workspace=w) after a successful start().
StartedProc(s, w) == [sid |-> s, ws |-> w, st |-> "running"]

RegInit ==
  /\ db = [s \in Sids |-> NoRecord]
  /\ sessions = [s \in Sids |-> 0]
  /\ active = [u \in Users |-> 0]
  /\ procs = [p \in Procs |-> NoProc]
  /\ calls = [c \in Calls |-> IdleFrame]
  /\ ops = 0

\* -------------------------------------------------- registry: create_session
\* create_session up to its first await: uuid4, Session(...), db.create_session.
CreateCall(c, u) ==
  /\ FreeSlot(c)
  /\ \E s \in FreshSids :
       /\ db' = [db EXCEPT ![s] = [user |-> u, ws |-> s, status |-> "active", pid |-> 0, act |-> "create"]]
       /\ calls' = Enter(c, [IdleFrame EXCEPT !.op = "create", !.pc = "c_start", !.sid = s, !.user = u])
  /\ ops' = ops + 1
  /\ UNCHANGED <<sessions, active, procs>>
  /\ UNCHANGED <<procVars, rl, textVars, fdx, gate>>

\* CreateStart with a fault: a failed start takes the record back.
CreateStartDropsRecord(c, ok) ==
  /\ calls[c].pc = "c_start"
  /\ IF ok
     THEN \E p \in FreshProcs :
            /\ procs' = [procs EXCEPT ![p] = StartedProc(calls[c].sid, calls[c].sid)]
            /\ calls' = [calls EXCEPT ![c].pc = "c_update", ![c].newp = p]
            /\ UNCHANGED db
     ELSE /\ calls' = [calls EXCEPT ![c] = Done(@, "raised")]
          /\ db' = [db EXCEPT ![calls[c].sid] = NoRecord]
          /\ UNCHANGED procs
  /\ UNCHANGED <<sessions, active, ops>>
  /\ UNCHANGED <<procVars, rl, textVars, fdx, gate>>

\* process = ClaudeCodeProcess(session_id, workspace_path); process.start():
\* the program is launched as the next process object, or start raises (the
\* workspace or the program cannot be created) and the exception leaves
\* create_session.
CreateStart(c, ok) ==
  /\ calls[c].pc = "c_start"
  /\ IF ok
     THEN \E p \in FreshProcs :
            /\ procs' = [procs EXCEPT ![p] = StartedProc(calls[c].sid, calls[c].sid)]
            /\ calls' = [calls EXCEPT ![c].pc = "c_update", ![c].newp = p]
     ELSE /\ calls' = [calls EXCEPT ![c] = Done(@, "raised")]
          /\ UNCHANGED procs
  /\ UNCHANGED <<db, sessions, active, ops>>
  /\ UNCHANGED <<procVars, rl, textVars, fdx, gate>>

\* db.update_session(session_id, pid=pid)
CreateUpdate(c) ==
  /\ calls[c].pc = "c_update"
  /\ db' = update_session(calls[c].sid, "keep", calls[c].newp, "keep")
  /\ calls' = [calls EXCEPT ![c].pc = "c_store"]
  /\ UNCHANGED <<sessions, active, procs, ops>>
  /\ UNCHANGED <<procVars, rl, textVars, fdx, gate>>

\* CreateStore with a fault: the owner's active selection is not set.
CreateStoreKeepsActive(c) ==
  /\ calls[c].pc = "c_store"
  /\ sessions' = [sessions EXCEPT ![calls[c].sid] = calls[c].newp]
  /\ calls' = [calls EXCEPT ![c] = Done(@, "ok")]
  /\ UNCHANGED <<db, active, procs, ops>>
  /\ UNCHANGED <<procVars, rl, textVars, fdx, gate>>

\* self.sessions[session_id] = process; self.active_sessions[user_id] = session_id
CreateStore(c) ==
  /\ calls[c].pc = "c_store"
  /\ sessions' = [sessions EXCEPT ![calls[c].sid] = calls[c].newp]
  /\ active' = [active EXCEPT ![calls[c].user] = calls[c].sid]
  /\ calls' = [calls EXCEPT ![c] = Done(@, "ok")]
  /\ UNCHANGED <<db, procs, ops>>
  /\ UNCHANGED <<procVars, rl, textVars, fdx, gate>>

\* ---------------------------------------------- registry: set_active_session
\* SetActiveCall with a fault: the owner of the record is not compared.
SetActiveCallAnyOwner(c, u, s) ==
  /\ FreeSlot(c)
  /\ calls' = Enter(c, [IdleFrame EXCEPT !.op = "setactive", !.pc = "a_check", !.sid = s, !.user = u,
                                           !.found = RecordExists(s)])
  /\ ops' = ops + 1
  /\ UNCHANGED <<db, sessions, active, procs>>
  /\ UNCHANGED <<procVars, rl, textVars, fdx, gate>>

\* session = await self.get_session(session_id)
SetActiveCall(c, u, s) ==
  /\ FreeSlot(c)
  /\ calls' = Enter(c, [IdleFrame EXCEPT !.op = "setactive", !.pc = "a_check", !.sid = s, !.user = u,
                                           !.found = (RecordExists(s) /\ get_session(s).user = u)])
  /\ ops' = ops + 1
  /\ UNCHANGED <<db, sessions, active, procs>>
  /\ UNCHANGED <<procVars, rl, textVars, fdx, gate>>

\* if session and session.user_id == user_id: store, return True; else False
SetActiveCheck(c) ==
  /\ calls[c].pc = "a_check"
  /\ IF calls[c].found
     THEN /\ active' = [active EXCEPT ![calls[c].user] = calls[c].sid]
          /\ calls' = [calls EXCEPT ![c] = Done(@, "true")]
     ELSE /\ calls' = [calls EXCEPT ![c] = Done(@, "false")]
          /\ UNCHANGED active
  /\ UNCHANGED <<db, sessions, procs, ops>>
  /\ UNCHANGED <<procVars, rl, textVars, fdx, gate>>

\* ----------------------------------------------- registry: terminate_session
\* process = self.sessions.get(session_id); if process: await process.terminate()
\* (SIGTERM is sent and the coroutine waits); otherwise straight to the
\* database update.
TerminateCall(c, s) ==
  /\ FreeSlot(c)
  /\ IF sessions[s] # 0
     THEN /\ calls' = Enter(c, [IdleFrame EXCEPT !.op = "terminate", !.pc = "t_wait", !.sid = s, !.proc = sessions[s]])
          /\ UNCHANGED db
     ELSE /\ db' = update_session(s, "terminated", 0, "terminate")
          /\ calls' = Enter(c, [IdleFrame EXCEPT !.op = "terminate", !.pc = "t_clear", !.sid = s])
  /\ ops' = ops + 1
  /\ UNCHANGED <<sessions, active, procs>>
  /\ UNCHANGED <<procVars, rl, textVars, fdx, gate>>

\* process.terminate() has returned: the process has exited (by SIGTERM or,
\* after the grace period, by SIGKILL). del self.sessions[session_id] raises
\* KeyError when the entry is no longer there.
TerminateWaited(c) ==
  /\ calls[c].pc = "t_wait"
  /\ procs' = [procs EXCEPT ![calls[c].proc].st = "exited"]
  /\ IF sessions[calls[c].sid] = 0
     THEN /\ calls' = [calls EXCEPT ![c] = Done(@, "raised")]
          /\ UNCHANGED sessions
     ELSE /\ sessions' = [sessions EXCEPT ![calls[c].sid] = 0]
          /\ calls' = [calls EXCEPT ![c].pc = "t_update"]
  /\ UNCHANGED <<db, active, ops>>
  /\ UNCHANGED <<procVars, rl, textVars, fdx, gate>>

\* db.update_session(session_id, status=TERMINATED, last_activity=now)
TerminateUpdate(c) ==
  /\ calls[c].pc = "t_update"
  /\ db' = update_session(calls[c].sid, "terminated", 0, "terminate")
  /\ calls' = [calls EXCEPT ![c].pc = "t_clear"]
  /\ UNCHANGED <<sessions, active, procs, ops>>
  /\ UNCHANGED <<procVars, rl, textVars, fdx, gate>>

\* TerminateClear with a fault: every owner's selection is cleared.
TerminateClearsEveryOwner(c) ==
  /\ calls[c].pc = "t_clear"
  /\ active' = [u \in Users |-> 0]
  /\ calls' = [calls EXCEPT ![c] = Done(@, "true")]
  /\ UNCHANGED <<db, sessions, procs, ops>>
  /\ UNCHANGED <<procVars, rl, textVars, fdx, gate>>

\* TerminateClear with a fault: the active selections are left as they are.
TerminateClearKeepsActive(c) ==
  /\ calls[c].pc = "t_clear"
  /\ calls' = [calls EXCEPT ![c] = Done(@, "true")]
  /\ UNCHANGED <<db, sessions, active, procs, ops>>
  /\ UNCHANGED <<procVars, rl, textVars, fdx, gate>>

\* for user_id, active_id in active_sessions: if active_id == session_id: del
TerminateClear(c) ==
  /\ calls[c].pc = "t_clear"
  /\ active' = [u \in Users |-> IF active[u] = calls[c].sid THEN 0 ELSE active[u]]
  /\ calls' = [calls EXCEPT ![c] = Done(@, "true")]
  /\ UNCHANGED <<db, sessions, procs, ops>>
  /\ UNCHANGED <<procVars, rl, textVars, fdx, gate>>

\* ------------------------------------------------- registry: restart_session
\* session = await self.get_session(session_id)
RestartCall(c, s) ==
  /\ FreeSlot(c)
  /\ calls' = Enter(c, [IdleFrame EXCEPT !.op = "restart", !.pc = "r_got", !.sid = s, !.found = RecordExists(s)])
  /\ ops' = ops + 1
  /\ UNCHANGED <<db, sessions, active, procs>>
  /\ UNCHANGED <<procVars, rl, textVars, fdx, gate>>

\* new_process = ClaudeCodeProcess(...); pid = await new_process.start(), on
\* the process objects pp: the program is launched, or start raises.
RestartStart(c, ok, pp) ==
  IF ok
  THEN \E p \in FreshProcs :
         /\ procs' = [pp EXCEPT ![p] = StartedProc(calls[c].sid, get_session(calls[c].sid).ws)]
         /\ calls' = [calls EXCEPT ![c].pc = "r_update", ![c].newp = p]
  ELSE /\ calls' = [calls EXCEPT ![c] = Done(@, "raised")]
       /\ procs' = pp

\* RestartCheck with a fault: a missing record does not stop the restart.
RestartCheckIgnoresMissing(c, ok) ==
  /\ calls[c].pc = "r_got"
  /\ IF sessions[calls[c].sid] # 0
     THEN /\ calls' = [calls EXCEPT ![c].pc = "r_wait", ![c].proc = sessions[calls[c].sid]]
          /\ UNCHANGED procs
     ELSE RestartStart(c, ok, procs)
  /\ UNCHANGED <<db, sessions, active, ops>>
  /\ UNCHANGED <<procVars, rl, textVars, fdx, gate>>

\* if not session: return False. process = self.sessions.get(session_id);
\* if process: await process.terminate(); with no entry the new process is
\* started at once.
RestartCheck(c, ok) ==
  /\ calls[c].pc = "r_got"
  /\ IF ~calls[c].found
     THEN /\ calls' = [calls EXCEPT ![c] = Done(@, "false")]
          /\ UNCHANGED procs
     ELSE IF sessions[calls[c].sid] # 0
     THEN /\ calls' = [calls EXCEPT ![c].pc = "r_wait", ![c].proc = sessions[calls[c].sid]]
          /\ UNCHANGED procs
     ELSE RestartStart(c, ok, procs)
  /\ UNCHANGED <<db, sessions, active, ops>>
  /\ UNCHANGED <<procVars, rl, textVars, fdx, gate>>

\* process.terminate() has returned: the old process has exited; the new
\* one is started.
RestartWaited(c, ok) ==
  /\ calls[c].pc = "r_wait"
  /\ RestartStart(c, ok, [procs EXCEPT ![calls[c].proc].st = "exited"])
  /\ UNCHANGED <<db, sessions, active, ops>>
  /\ UNCHANGED <<procVars, rl, textVars, fdx, gate>>

\* RestartUpdate with a fault: the update writes the pid but not the status.
RestartUpdateKeepsStatus(c) ==
  /\ calls[c].pc = "r_update"
  /\ db' = update_session(calls[c].sid, "keep", calls[c].newp, "restart")
  /\ calls' = [calls EXCEPT ![c].pc = "r_store"]
  /\ UNCHANGED <<sessions, active, procs, ops>>
  /\ UNCHANGED <<procVars, rl, textVars, fdx, gate>>

\* db.update_session(session_id, pid=pid, status=ACTIVE, last_activity=now)
RestartUpdate(c) ==
  /\ calls[c].pc = "r_update"
  /\ db' = update_session(calls[c].sid, "active", calls[c].newp, "restart")
  /\ calls' = [calls EXCEPT ![c].pc = "r_store"]
  /\ UNCHANGED <<sessions, active, procs, ops>>
  /\ UNCHANGED <<procVars, rl, textVars, fdx, gate>>

\* self.sessions[session_id] = new_process; return True
RestartStore(c) ==
  /\ calls[c].pc = "r_store"
  /\ sessions' = [sessions EXCEPT ![calls[c].sid] = calls[c].newp]
  /\ calls' = [calls EXCEPT ![c] = Done(@, "true")]
  /\ UNCHANGED <<db, active, procs, ops>>
  /\ UNCHANGED <<procVars, rl, textVars, fdx, gate>>

\* SendCall with a fault: the input is written before the alive check.
SendCallWritesFirst(c, s) ==
  /\ FreeSlot(c)
  /\ IF sessions[s] = 0
     THEN calls' = Enter(c, Done([IdleFrame EXCEPT !.op = "send", !.sid = s], "notrunning"))
     ELSE IF ~is_alive(sessions[s])
     THEN calls' = Enter(c, Done([IdleFrame EXCEPT !.op = "send", !.sid = s, !.wrote = TRUE], "crashed"))
     ELSE calls' = Enter(c, [IdleFrame EXCEPT !.op = "send", !.pc = "m_update", !.sid = s, !.proc = sessions[s], !.wrote = TRUE])
  /\ ops' = ops + 1
  /\ UNCHANGED <<db, sessions, active, procs>>
  /\ UNCHANGED <<procVars, rl, textVars, fdx, gate>>

\* ---------------------------------------------------- registry: send_message
\* process = self.sessions.get(session_id): RuntimeError when there is none,
\* RuntimeError when it is not alive; otherwise process.send_input(message).
SendCall(c, s) ==
  /\ FreeSlot(c)
  /\ IF sessions[s] = 0
     THEN calls' = Enter(c, Done([IdleFrame EXCEPT !.op = "send", !.sid = s], "notrunning"))
     ELSE IF ~is_alive(sessions[s])
     THEN calls' = Enter(c, Done([IdleFrame EXCEPT !.op = "send", !.sid = s], "crashed"))
     ELSE calls' = Enter(c, [IdleFrame EXCEPT !.op = "send", !.pc = "m_update", !.sid = s, !.proc = sessions[s], !.wrote = TRUE])
  /\ ops' = ops + 1
  /\ UNCHANGED <<db, sessions, active, procs>>
  /\ UNCHANGED <<procVars, rl, textVars, fdx, gate>>

\* SendUpdate with a fault: the update also writes status ACTIVE.
SendUpdateMarksActive(c) ==
  /\ calls[c].pc = "m_update"
  /\ db' = update_session(calls[c].sid, "active", 0, "send")
  /\ calls' = [calls EXCEPT ![c].pc = "m_stream"]
  /\ UNCHANGED <<sessions, active, procs, ops>>
  /\ UNCHANGED <<procVars, rl, textVars, fdx, gate>>

\* db.update_session(session_id, last_activity=now)
SendUpdate(c) ==
  /\ calls[c].pc = "m_update"
  /\ db' = update_session(calls[c].sid, "keep", 0, "send")
  /\ calls' = [calls EXCEPT ![c].pc = "m_stream"]
  /\ UNCHANGED <<sessions, active, procs, ops>>
  /\ UNCHANGED <<procVars, rl, textVars, fdx, gate>>

\* async for output in process.read_output(timeout=60.0): yield output.
\* The queue of the process is not part of the registry model: a unit may be
\* there to take at any time (ProcSpec has the queue).
SendYield(c) ==
  /\ calls[c].pc = "m_stream"
  /\ calls' = [calls EXCEPT ![c].hasOut = TRUE]
  /\ UNCHANGED <<db, sessions, active, procs, ops>>
  /\ UNCHANGED <<procVars, rl, textVars, fdx, gate>>

\* The stream ends (timeout, or the process exited and the queue is empty);
\* with no output the fallback chunk is yielded.
SendEnd(c) ==
  /\ calls[c].pc = "m_stream"
  /\ calls' = [calls EXCEPT ![c] = [Done(@, "ended") EXCEPT !.synth = ~calls[c].hasOut]]
  /\ UNCHANGED <<db, sessions, active, procs, ops>>
  /\ UNCHANGED <<procVars, rl, textVars, fdx, gate>>

\* ------------------------------------------------- registry: the environment
\* The external program exits on its own.
ProcExit(p) ==
  /\ procs[p].st = "running"
  /\ procs' = [procs EXCEPT ![p].st = "exited"]
  /\ UNCHANGED <<db, sessions, active, calls, ops>>
  /\ UNCHANGED <<procVars, rl, textVars, fdx, gate>>

RegNext ==
  \/ \E c \in Calls, u \in Users : CreateCall(c, u)
  \/ \E c \in Calls, ok \in BOOLEAN : CreateStart(c, ok)
  \/ \E c \in Calls : CreateUpdate(c)
  \/ \E c \in Calls : CreateStore(c)
  \/ \E c \in Calls, u \in Users, s \in Sids : SetActiveCall(c, u, s)
  \/ \E c \in Calls : SetActiveCheck(c)
  \/ \E c \in Calls, s \in Sids : TerminateCall(c, s)
  \/ \E c \in Calls : TerminateWaited(c)
  \/ \E c \in Calls : TerminateUpdate(c)
  \/ \E c \in Calls : TerminateClear(c)
  \/ \E c \in Calls, s \in Sids : RestartCall(c, s)
  \/ \E c \in Calls, ok \in BOOLEAN : RestartCheck(c, ok)
  \/ \E c \in Calls, ok \in BOOLEAN : RestartWaited(c, ok)
  \/ \E c \in Calls : RestartUpdate(c)
  \/ \E c \in Calls : RestartStore(c)
  \/ \E c \in Calls, s \in Sids : SendCall(c, s)
  \/ \E c \in Calls : SendUpdate(c)
  \/ \E c \in Calls : SendYield(c)
  \/ \E c \in Calls : SendEnd(c)
  \/ \E p \in Procs : ProcExit(p)


\* =========================================================================
\* One Session Process in detail (ProcSpec)
\* =========================================================================
\* chunks the external program writes to the terminal in one run
MaxChunks == 3
\* sendMessage invocations on the process in one run
MaxSends == 2
\* the stream timeout of send_message (60.0 s), counted in the 1.0 s wait
\* slices of read_output and scaled down
StreamSlices == 2

\* overlapping terminate() coroutines: two slots
Terms == {1, 2}

\* direct send_input calls on the process in one run
MaxInputs == 2

\* ClaudeCodeProcess.__init__. The descriptor fields are "none" (None) or
\* "set"; masterOpen / slaveOpen say whether the descriptor is open in the
\* operating system, masterCloses / slaveCloses count the os.close calls made
\* on it; inputs counts the lines written to the terminal, sendCalls the
\* direct send_input calls, lastSend is the outcome of the last of them.
NewProcess ==
  [process |-> "none", master |-> "none", slave |-> "none",
   masterOpen |-> FALSE, slaveOpen |-> FALSE, masterCloses |-> 0, slaveCloses |-> 0,
   task |-> "none", cancelReq |-> FALSE, buffer |-> <<>>, queue |-> <<>>,
   started |-> FALSE, inputs |-> 0, sendCalls |-> 0, lastSend |-> "none"]

IdleSend == [pc |-> "idle", n |-> 0, elapsed |-> 0, hasOut |-> FALSE, chunks |-> <<>>, ret |-> "none"]

\* A terminate() frame: live = the process had been started when it was
\* called; again = an earlier terminate() of the started process had already
\* returned when it was called; sigterm / timedOut / killed = what the call
\* did; closed = the os.close calls it made itself.
IdleTerm ==
  [pc |-> "idle", live |-> FALSE, again |-> FALSE, sigterm |-> FALSE,
   timedOut |-> FALSE, killed |-> FALSE, closed |-> 0]

ProcInit ==
  /\ cp = NewProcess
  /\ pty = [pending |-> <<>>, next |-> 1]
  /\ flushed = <<>>
  /\ yielded = <<>>
  /\ snd = IdleSend
  /\ term = [t \in Terms |-> IdleTerm]

\* ClaudeCodeProcess.is_alive on the detailed object
proc_is_alive == cp.process = "running"

\* asyncio.Queue: put at the tail, get from the head
QueuePut(q, u) == Append(q, u)

\* QueueHead with a fault: get takes the newest unit.
QueueNewest(q) == q[Len(q)]

QueueHead(q) == Head(q)

QueueRest(q) == Tail(q)

\* CloseMaster with a fault: the field is not reset to None after the close.
CloseMasterKeepsField(o) ==
  IF o.master # "none"
  THEN [o EXCEPT !.masterOpen = FALSE, !.masterCloses = @ + 1]
  ELSE o

\* os.close(self._master_fd); self._master_fd = None, guarded by
\* "if self._master_fd is not None" (the finally of _read_output and of terminate)
CloseMaster(o) ==
  IF o.master # "none"
  THEN [o EXCEPT !.master = "none", !.masterOpen = FALSE, !.masterCloses = @ + 1]
  ELSE o

\* os.close(self._slave_fd); self._slave_fd = None, guarded the same way
CloseSlave(o) ==
  IF o.slave # "none"
  THEN [o EXCEPT !.slave = "none", !.slaveOpen = FALSE, !.slaveCloses = @ + 1]
  ELSE o

\* ------------------------------------------------------------- process: start
\* start(): "mkdir" fails before anything is allocated; "exec" fails in
\* create_subprocess_exec after pty.openpty(); "ok" launches the program,
\* closes the subordinate descriptor in the parent and creates the read task.
Start(how) ==
  /\ ~cp.started
  /\ cp' = IF how = "mkdir" THEN [cp EXCEPT !.started = TRUE]
           ELSE IF how = "exec"
           THEN [cp EXCEPT !.started = TRUE, !.master = "set", !.slave = "set",
                           !.masterOpen = TRUE, !.slaveOpen = TRUE]
           ELSE [cp EXCEPT !.started = TRUE, !.process = "running", !.master = "set",
                           !.masterOpen = TRUE, !.slave = "none", !.slaveOpen = FALSE,
                           !.slaveCloses = 1, !.task = "created"]
  /\ UNCHANGED <<pty, flushed, yielded, snd, term>>
  /\ UNCHANGED <<regVars, rl, textVars, fdx, gate>>

\* ------------------------------------------------------ the external program
\* The program writes a chunk of output to the terminal.
ProgWrite ==
  /\ cp.process = "running"
  /\ pty.next <= MaxChunks
  /\ pty' = [pending |-> Append(pty.pending, pty.next), next |-> pty.next + 1]
  /\ UNCHANGED <<cp, flushed, yielded, snd, term>>
  /\ UNCHANGED <<regVars, rl, textVars, fdx, gate>>

\* The program exits (on its own, or on a SIGTERM it was sent).
ProgExit ==
  /\ cp.process = "running"
  /\ cp' = [cp EXCEPT !.process = "exited"]
  /\ UNCHANGED <<pty, flushed, yielded, snd, term>>
  /\ UNCHANGED <<regVars, rl, textVars, fdx, gate>>

\* ------------------------------------------------------ process: _read_output
\* The flush test of the loop: a non-empty buffer is flushed when the quiet
\* period has passed or the buffer is large (either one given as hit).
ShouldFlush(buffer, hit) == buffer # <<>> /\ hit

\* The finally of _read_output.
ReadTaskEnd(o) == [CloseMaster(o) EXCEPT !.task = "done", !.buffer = <<>>]

\* The task runs for the first time: "if not self.process or self._master_fd
\* is None: return", else the loop dispatches its first read.
TaskBegin ==
  /\ cp.task = "created"
  /\ ~cp.cancelReq
  /\ cp' = IF cp.process = "none" \/ cp.master = "none"
           THEN [cp EXCEPT !.task = "done"]
           ELSE [cp EXCEPT !.task = "reading"]
  /\ UNCHANGED <<pty, flushed, yielded, snd, term>>
  /\ UNCHANGED <<regVars, rl, textVars, fdx, gate>>

\* LoopPass with a fault: a read that returns nothing ends the loop.
LoopPassStopsOnEmptyRead(got, hit, k) ==
  /\ cp.task = "reading"
  /\ ~cp.cancelReq
  /\ got => pty.pending # <<>>
  /\ k <= Len(pty.pending) - (IF got THEN 1 ELSE 0)
  /\ cp.process # "exited" => k = 0
  /\ LET buf1 == IF got THEN Append(cp.buffer, Head(pty.pending)) ELSE cp.buffer
         pend1 == IF got THEN Tail(pty.pending) ELSE pty.pending
         fl1 == ShouldFlush(buf1, hit)
         q1 == IF fl1 THEN QueuePut(cp.queue, buf1) ELSE cp.queue
         h1 == IF fl1 THEN Append(flushed, buf1) ELSE flushed
         buf2 == IF fl1 THEN <<>> ELSE buf1
         buf3 == buf2 \o SubSeq(pend1, 1, k)
     IN IF cp.process = "exited"
        THEN /\ cp' = ReadTaskEnd([cp EXCEPT !.queue = IF buf3 # <<>> THEN QueuePut(q1, buf3) ELSE q1])
             /\ flushed' = IF buf3 # <<>> THEN Append(h1, buf3) ELSE h1
             /\ pty' = [pty EXCEPT !.pending = SubSeq(pend1, k + 1, Len(pend1))]
        ELSE /\ cp' = IF got THEN [cp EXCEPT !.queue = q1, !.buffer = buf2, !.task = "sleeping"]
                      ELSE ReadTaskEnd([cp EXCEPT !.queue = q1])
             /\ flushed' = h1
             /\ pty' = [pty EXCEPT !.pending = pend1]
  /\ UNCHANGED <<yielded, snd, term>>
  /\ UNCHANGED <<regVars, rl, textVars, fdx, gate>>

\* LoopPass with a fault: what the last read returns is not added to the
\* buffer.
LoopPassDropsLastRead(got, hit, k) ==
  /\ cp.task = "reading"
  /\ ~cp.cancelReq
  /\ got => pty.pending # <<>>
  /\ k <= Len(pty.pending) - (IF got THEN 1 ELSE 0)
  /\ cp.process # "exited" => k = 0
  /\ LET buf1 == IF got THEN Append(cp.buffer, Head(pty.pending)) ELSE cp.buffer
         pend1 == IF got THEN Tail(pty.pending) ELSE pty.pending
         fl1 == ShouldFlush(buf1, hit)
         q1 == IF fl1 THEN QueuePut(cp.queue, buf1) ELSE cp.queue
         h1 == IF fl1 THEN Append(flushed, buf1) ELSE flushed
         buf2 == IF fl1 THEN <<>> ELSE buf1
     IN IF cp.process = "exited"
        THEN /\ cp' = ReadTaskEnd([cp EXCEPT !.queue = IF buf2 # <<>> THEN QueuePut(q1, buf2) ELSE q1])
             /\ flushed' = IF buf2 # <<>> THEN Append(h1, buf2) ELSE h1
             /\ pty' = [pty EXCEPT !.pending = SubSeq(pend1, k + 1, Len(pend1))]
        ELSE /\ cp' = [cp EXCEPT !.queue = q1, !.buffer = buf2, !.task = "sleeping"]
             /\ flushed' = h1
             /\ pty' = [pty EXCEPT !.pending = pend1]
  /\ UNCHANGED <<yielded, snd, term>>
  /\ UNCHANGED <<regVars, rl, textVars, fdx, gate>>

\* One pass of the loop from the completed read to the sleep: the read
\* returns the oldest pending chunk (got) or nothing; the chunk is appended
\* to the buffer; the buffer is flushed if due; if the process has exited
\* one last read takes the first k chunks left on the terminal, the buffer is
\* flushed and the loop left through its finally.
LoopPass(got, hit, k) ==
  /\ cp.task = "reading"
  /\ ~cp.cancelReq
  /\ got => pty.pending # <<>>
  /\ k <= Len(pty.pending) - (IF got THEN 1 ELSE 0)
  /\ cp.process # "exited" => k = 0
  /\ LET buf1 == IF got THEN Append(cp.buffer, Head(pty.pending)) ELSE cp.buffer
         pend1 == IF got THEN Tail(pty.pending) ELSE pty.pending
         fl1 == ShouldFlush(buf1, hit)
         q1 == IF fl1 THEN QueuePut(cp.queue, buf1) ELSE cp.queue
         h1 == IF fl1 THEN Append(flushed, buf1) ELSE flushed
         buf2 == IF fl1 THEN <<>> ELSE buf1
         buf3 == buf2 \o SubSeq(pend1, 1, k)
     IN IF cp.process = "exited"
        THEN /\ cp' = ReadTaskEnd([cp EXCEPT !.queue = IF buf3 # <<>> THEN QueuePut(q1, buf3) ELSE q1])
             /\ flushed' = IF buf3 # <<>> THEN Append(h1, buf3) ELSE h1
             /\ pty' = [pty EXCEPT !.pending = SubSeq(pend1, k + 1, Len(pend1))]
        ELSE /\ cp' = [cp EXCEPT !.queue = q1, !.buffer = buf2, !.task = "sleeping"]
             /\ flushed' = h1
             /\ pty' = [pty EXCEPT !.pending = pend1]
  /\ UNCHANGED <<yielded, snd, term>>
  /\ UNCHANGED <<regVars, rl, textVars, fdx, gate>>

\* await asyncio.sleep(0.01) is over: the next read is dispatched.
LoopWake ==
  /\ cp.task = "sleeping"
  /\ ~cp.cancelReq
  /\ cp' = [cp EXCEPT !.task = "reading"]
  /\ UNCHANGED <<pty, flushed, yielded, snd, term>>
  /\ UNCHANGED <<regVars, rl, textVars, fdx, gate>>

\* The cancelled task is resumed: a task that never ran ends without running
\* its body; one suspended in the loop gets CancelledError and runs finally.
TaskCancelled ==
  /\ cp.cancelReq
  /\ cp.task \in {"created", "reading", "sleeping"}
  /\ cp' = IF cp.task = "created" THEN [cp EXCEPT !.task = "done"] ELSE ReadTaskEnd(cp)
  /\ UNCHANGED <<pty, flushed, yielded, snd, term>>
  /\ UNCHANGED <<regVars, rl, textVars, fdx, gate>>

\* -------------------------------------------------------- process: terminate
\* TaskPending with a fault: the read task is never cancelled nor awaited.
TaskPendingNever(o) == FALSE

\* "self._reading_task and not self._reading_task.done()"
TaskPending(o) == o.task \notin {"none", "done"}

\* The descriptor clean-up at the end of terminate's finally.
Cleanup(o) == CloseSlave(CloseMaster(o))

\* ShouldKill with a fault: the kill does not depend on the timeout.
ShouldKillAlways(timedOut) == TRUE

\* wait_for(self.process.wait(), timeout) raised TimeoutError: force kill.
ShouldKill(timedOut) == timedOut

\* The finally of terminate, up to its await: a read task that is not done is
\* cancelled and awaited; otherwise the descriptors are cleaned up and
\* terminate returns.
TermFinally(t, o, f) ==
  IF TaskPending(o)
  THEN /\ cp' = [o EXCEPT !.cancelReq = TRUE]
       /\ term' = [term EXCEPT ![t] = [f EXCEPT !.pc = "join"]]
  ELSE /\ cp' = Cleanup(o)
       /\ term' = [term EXCEPT ![t] = [f EXCEPT !.pc = "done",
                     !.closed = (Cleanup(o).masterCloses - o.masterCloses) + (Cleanup(o).slaveCloses - o.slaveCloses)]]

\* An earlier terminate() of the started process has returned.
TerminatedBefore == \E u \in Terms : term[u].pc = "done" /\ term[u].live

\* terminate(): "if not self.process: return"; send_signal(SIGTERM), which
\* raises for a process that has exited (caught, logged); then the wait.
TermCall(t) ==
  /\ term[t].pc = "idle"
  /\ \A u \in Terms : u < t => term[u].pc # "idle"
  /\ cp.started
  /\ IF cp.process = "none"
     THEN /\ term' = [term EXCEPT ![t].pc = "done"]
          /\ UNCHANGED cp
     ELSE IF cp.process = "exited"
     THEN TermFinally(t, cp, [term[t] EXCEPT !.live = TRUE, !.again = TerminatedBefore])
     ELSE /\ term' = [term EXCEPT ![t] = [@ EXCEPT !.live = TRUE, !.again = TerminatedBefore, !.sigterm = TRUE, !.pc = "wait"]]
          /\ UNCHANGED cp
  /\ UNCHANGED <<pty, flushed, yielded, snd>>
  /\ UNCHANGED <<regVars, rl, textVars, fdx, gate>>

\* The wait ends: the process exited within the grace period, or the grace
\* period ran out with the process still running and it is killed.
TermWait(t) ==
  /\ term[t].pc = "wait"
  /\ LET timedOut == cp.process = "running"
     IN IF ShouldKill(timedOut)
        THEN /\ term' = [term EXCEPT ![t] = [@ EXCEPT !.timedOut = timedOut, !.killed = TRUE, !.pc = "waitk"]]
             /\ cp' = [cp EXCEPT !.process = "exited"]
        ELSE TermFinally(t, cp, [term[t] EXCEPT !.timedOut = timedOut])
  /\ UNCHANGED <<pty, flushed, yielded, snd>>
  /\ UNCHANGED <<regVars, rl, textVars, fdx, gate>>

\* "await self.process.wait()" after the kill has returned.
TermKilled(t) ==
  /\ term[t].pc = "waitk"
  /\ TermFinally(t, cp, term[t])
  /\ UNCHANGED <<pty, flushed, yielded, snd>>
  /\ UNCHANGED <<regVars, rl, textVars, fdx, gate>>

\* "await self._reading_task" has returned: the descriptors are cleaned up.
TermJoin(t) ==
  /\ term[t].pc = "join"
  /\ cp.task = "done"
  /\ cp' = Cleanup(cp)
  /\ term' = [term EXCEPT ![t] = [@ EXCEPT !.pc = "done",
                  !.closed = (Cleanup(cp).masterCloses - cp.masterCloses) + (Cleanup(cp).slaveCloses - cp.slaveCloses)]]
  /\ UNCHANGED <<pty, flushed, yielded, snd>>
  /\ UNCHANGED <<regVars, rl, textVars, fdx, gate>>

\* ----------------------------------- process: send_message on this process
\* The fallback chunk of send_message; real units hold chunk numbers >= 1.
Synthetic == <<0>>

\* EndStream with a fault: the fallback chunk is yielded whatever came before.
EndStreamAlwaysFallback(f) ==
  [f EXCEPT !.pc = "done", !.ret = "ended", !.chunks = Append(@, Synthetic)]

\* After the async for: "if has_output: log ... else: yield fallback".
EndStream(f) ==
  [f EXCEPT !.pc = "done", !.ret = "ended",
            !.chunks = IF f.hasOut THEN @ ELSE Append(@, Synthetic)]

\* read_output: "remaining = timeout - elapsed; if remaining <= 0: break"
TimedOut(elapsed) == elapsed >= StreamSlices

\* send_message for the session whose live-map entry is this process: the
\* alive check, then send_input ("if not self.process or self._master_fd is
\* None: raise"), which writes the text and a newline to the master.
SendMsgCall ==
  /\ snd.pc \in {"idle", "done"}
  /\ snd.n < MaxSends
  /\ cp.process # "none"
  /\ IF ~proc_is_alive
     THEN /\ snd' = [IdleSend EXCEPT !.n = snd.n + 1, !.pc = "done", !.ret = "crashed"]
          /\ UNCHANGED cp
     ELSE IF cp.master = "none"
     THEN /\ snd' = [IdleSend EXCEPT !.n = snd.n + 1, !.pc = "done", !.ret = "sendfailed"]
          /\ UNCHANGED cp
     ELSE /\ snd' = [IdleSend EXCEPT !.n = snd.n + 1, !.pc = "update"]
          /\ cp' = [cp EXCEPT !.inputs = @ + 1]
  /\ UNCHANGED <<pty, flushed, yielded, term>>
  /\ UNCHANGED <<regVars, rl, textVars, fdx, gate>>

\* db.update_session(last_activity) has returned; read_output(60.0) starts.
SendMsgUpdate ==
  /\ snd.pc = "update"
  /\ snd' = [snd EXCEPT !.pc = "stream", !.elapsed = 0]
  /\ UNCHANGED <<cp, pty, flushed, yielded, term>>
  /\ UNCHANGED <<regVars, rl, textVars, fdx, gate>>

\* read_output: queue.get() returns a unit, which is yielded through
\* send_message ("has_output = True; yield output").
ReadGet ==
  /\ snd.pc = "stream"
  /\ ~TimedOut(snd.elapsed)
  /\ cp.queue # <<>>
  /\ yielded' = Append(yielded, QueueHead(cp.queue))
  /\ snd' = [snd EXCEPT !.hasOut = TRUE, !.chunks = Append(@, QueueHead(cp.queue))]
  /\ cp' = [cp EXCEPT !.queue = QueueRest(@)]
  /\ UNCHANGED <<pty, flushed, term>>
  /\ UNCHANGED <<regVars, rl, textVars, fdx, gate>>

\* ReadSlice with a fault: the elapsed time is not advanced by the wait.
ReadSliceNoClock ==
  /\ snd.pc = "stream"
  /\ ~TimedOut(snd.elapsed)
  /\ cp.queue = <<>>
  /\ snd' = IF cp.process = "exited" THEN EndStream(snd) ELSE snd
  /\ UNCHANGED <<cp, pty, flushed, yielded, term>>
  /\ UNCHANGED <<regVars, rl, textVars, fdx, gate>>

\* read_output: the wait slice passes with the queue empty (TimeoutError);
\* "if queue.empty() and process exited: break", else continue.
ReadSlice ==
  /\ snd.pc = "stream"
  /\ ~TimedOut(snd.elapsed)
  /\ cp.queue = <<>>
  /\ snd' = IF cp.process = "exited"
            THEN EndStream([snd EXCEPT !.elapsed = @ + 1])
            ELSE [snd EXCEPT !.elapsed = @ + 1]
  /\ UNCHANGED <<cp, pty, flushed, yielded, term>>
  /\ UNCHANGED <<regVars, rl, textVars, fdx, gate>>

\* Time passes while the consumer holds a yielded unit.
Tick ==
  /\ snd.pc = "stream"
  /\ snd.hasOut
  /\ ~TimedOut(snd.elapsed)
  /\ snd' = [snd EXCEPT !.elapsed = @ + 1]
  /\ UNCHANGED <<cp, pty, flushed, yielded, term>>
  /\ UNCHANGED <<regVars, rl, textVars, fdx, gate>>

\* ReadEnd with a fault: the units still queued are dropped at the timeout.
ReadEndDropsQueue ==
  /\ snd.pc = "stream"
  /\ TimedOut(snd.elapsed)
  /\ snd' = EndStream(snd)
  /\ cp' = [cp EXCEPT !.queue = <<>>]
  /\ UNCHANGED <<pty, flushed, yielded, term>>
  /\ UNCHANGED <<regVars, rl, textVars, fdx, gate>>

\* read_output: no time remains; the stream ends.
ReadEnd ==
  /\ snd.pc = "stream"
  /\ TimedOut(snd.elapsed)
  /\ snd' = EndStream(snd)
  /\ UNCHANGED <<cp, pty, flushed, yielded, term>>
  /\ UNCHANGED <<regVars, rl, textVars, fdx, gate>>

\* ---------------------------------------------------- process: send_input
\* "if not self.process or self._master_fd is None: raise RuntimeError"
SendInputRefused(o) == o.process = "none" \/ o.master = "none"

\* send_input called on the process object directly: refused, or os.write of
\* the text and a newline on the controlling descriptor. Once the program
\* has exited the write fails with an OSError when no process holds the
\* subordinate side any more (how = "eio"), and is accepted by the terminal
\* when a descendant of the program still holds it (how = "ok").
SendInput(how) ==
  /\ cp.sendCalls < MaxInputs
  /\ how = "eio" => cp.process = "exited"
  /\ cp' = IF SendInputRefused(cp)
           THEN [cp EXCEPT !.sendCalls = @ + 1, !.lastSend = "refused"]
           ELSE IF how = "eio"
           THEN [cp EXCEPT !.sendCalls = @ + 1, !.lastSend = "oserror"]
           ELSE [cp EXCEPT !.sendCalls = @ + 1, !.lastSend = "written", !.inputs = @ + 1]
  /\ UNCHANGED <<pty, flushed, yielded, snd, term>>
  /\ UNCHANGED <<regVars, rl, textVars, fdx, gate>>

\* The Session Process with direct send_input calls: its start, the program's
\* exit, the read task and terminate.
InputNext ==
  \/ \E how \in {"mkdir", "exec", "ok"} : Start(how)
  \/ ProgWrite
  \/ ProgExit
  \/ TaskBegin
  \/ \E got \in BOOLEAN, hit \in BOOLEAN, k \in 0..MaxChunks : LoopPass(got, hit, k)
  \/ LoopWake
  \/ TaskCancelled
  \/ \E t \in Terms : TermCall(t)
  \/ \E t \in Terms : TermWait(t)
  \/ \E t \in Terms : TermKilled(t)
  \/ \E t \in Terms : TermJoin(t)
  \/ \E how \in {"ok", "eio"} : SendInput(how)

ProcNext ==
  \/ \E how \in {"mkdir", "exec", "ok"} : Start(how)
  \/ ProgWrite
  \/ ProgExit
  \/ TaskBegin
  \/ \E got \in BOOLEAN, hit \in BOOLEAN, k \in 0..MaxChunks : LoopPass(got, hit, k)
  \/ LoopWake
  \/ TaskCancelled
  \/ \E t \in Terms : TermCall(t)
  \/ \E t \in Terms : TermWait(t)
  \/ \E t \in Terms : TermKilled(t)
  \/ \E t \in Terms : TermJoin(t)
  \/ SendMsgCall
  \/ SendMsgUpdate
  \/ ReadGet
  \/ ReadSlice
  \/ Tick
  \/ ReadEnd


\* =========================================================================
\* The read loop with its clock (FlushSpec)
\* =========================================================================
\* "time_since_output > 0.5": the quiet period, in milliseconds
QuietMs == 500
\* "len(buffer) > 4096": the size over which the buffer is flushed at once
BigBuffer == 4096
\* "self._try_read_pty, 1024": the most bytes one read of the loop returns
ReadMax == 1024
\* the loop clock stops at this time (milliseconds)
MaxClock == 1200
\* reads of the loop that return data in one run
MaxReads == 5

\* The time of a pass of the loop that finds the executor and the event loop
\* free: the read and the 10 ms sleep, in milliseconds (scaled up).
ShortPass == 100


\* The time one pass of the loop takes, read and sleep together (the sleep
\* is 10 ms, the read runs in the executor), in milliseconds.
PassTimes == {ShortPass, 4 * ShortPass}

\* What one read returns: nothing (or an error, which _try_read_pty and the
\* loop turn into nothing), or a chunk of at most ReadMax bytes. bytes is
\* the length read, chars the length of the text after decoding and
\* removing escape sequences, blank whether that text is only white space.
Reads == {"none", "blank", "line", "full", "wide"}

Chunk(kind) ==
  IF kind = "blank" THEN [bytes |-> 8, chars |-> 2, blank |-> TRUE]
  ELSE IF kind = "line" THEN [bytes |-> 200, chars |-> 200, blank |-> FALSE]
  ELSE IF kind = "full" THEN [bytes |-> ReadMax, chars |-> ReadMax, blank |-> FALSE]
  ELSE IF kind = "wide" THEN [bytes |-> ReadMax, chars |-> ReadMax \div 4, blank |-> FALSE]
  ELSE [bytes |-> 0, chars |-> 0, blank |-> TRUE]

\* now = the loop clock; last = last_output_time; lastData = the time of the
\* last read that returned data; bytes / chars = the size of the buffer (the
\* bytes read for it, the characters in it); queue = the sizes of the units
\* put on the queue; arr = the time at which the program wrote the last
\* chunk that was added to the buffer (the loop does not know it).
FlushInit ==
  rl = [now |-> 0, last |-> 0, lastData |-> 0, arr |-> 0, bytes |-> 0, chars |-> 0,
        reads |-> 0, queue |-> <<>>, alive |-> TRUE, task |-> "loop"]

\* FlushDue with a fault: only the quiet period makes a flush due.
FlushDueOnlyQuiet(chars, since) == chars > 0 /\ since > QuietMs

\* FlushDue with a fault: only the size of the buffer makes a flush due.
FlushDueOnlyBig(chars, since) == chars > 0 /\ chars > BigBuffer

\* FlushDue with a fault: the quiet period counts from 500 ms on.
FlushDueFromQuiet(chars, since) == chars > 0 /\ (since >= QuietMs \/ chars > BigBuffer)

\* "if buffer and (time_since_output > 0.5 or len(buffer) > 4096)"
FlushDue(chars, since) == chars > 0 /\ (since > QuietMs \/ chars > BigBuffer)

\* "if clean_text.strip(): buffer += clean_text; last_output_time = now"
Buffered(kind) == kind # "none" /\ ~Chunk(kind).blank

\* One pass of the loop, dt after the one before: the read returns kind,
\* which the program wrote just now (late = TRUE) or just too late for a
\* short pass before this one to read it (late = FALSE); the text is added to the buffer and the time noted
\* unless it is blank; the buffer is flushed if due. When the program has
\* exited, the last read returns kind2, what the buffer holds is flushed and
\* the loop ends.
FlushPass(kind, dt, kind2, late) ==
  /\ rl.task = "loop"
  /\ rl.now + dt <= MaxClock
  /\ rl.reads + (IF kind = "none" THEN 0 ELSE 1) + (IF kind2 = "none" THEN 0 ELSE 1) <= MaxReads
  /\ rl.alive => kind2 = "none"
  /\ ~Buffered(kind) => late
  /\ LET now1 == rl.now + dt
         add == Buffered(kind)
         bytes1 == IF add THEN rl.bytes + Chunk(kind).bytes ELSE rl.bytes
         chars1 == IF add THEN rl.chars + Chunk(kind).chars ELSE rl.chars
         last1 == IF add THEN now1 ELSE rl.last
         due == FlushDue(chars1, now1 - last1)
         queue1 == IF due THEN Append(rl.queue, [bytes |-> bytes1, chars |-> chars1]) ELSE rl.queue
         bytes2 == IF due THEN 0 ELSE bytes1
         chars2 == IF due THEN 0 ELSE chars1
         bytes3 == IF Buffered(kind2) THEN bytes2 + Chunk(kind2).bytes ELSE bytes2
         chars3 == IF Buffered(kind2) THEN chars2 + Chunk(kind2).chars ELSE chars2
         base == [rl EXCEPT !.now = now1, !.last = last1,
                            !.lastData = IF kind = "none" THEN @ ELSE now1,
                            !.arr = IF add THEN (IF late THEN now1 ELSE now1 - ShortPass + 1) ELSE @,
                            !.reads = @ + (IF kind = "none" THEN 0 ELSE 1) + (IF kind2 = "none" THEN 0 ELSE 1)]
     IN rl' = IF rl.alive
              THEN [base EXCEPT !.bytes = bytes2, !.chars = chars2, !.queue = queue1]
              ELSE [base EXCEPT !.bytes = 0, !.chars = 0, !.task = "done",
                                !.queue = IF chars3 > 0
                                          THEN Append(queue1, [bytes |-> bytes3, chars |-> chars3])
                                          ELSE queue1]
  /\ UNCHANGED <<regVars, procVars, textVars, fdx, gate>>

\* The program exits; the loop sees the return code in its next pass.
FlushProgExit ==
  /\ rl.task = "loop"
  /\ rl.alive
  /\ rl' = [rl EXCEPT !.alive = FALSE]
  /\ UNCHANGED <<regVars, procVars, textVars, fdx, gate>>

FlushNext ==
  \/ \E kind \in Reads, dt \in PassTimes, kind2 \in Reads, late \in BOOLEAN : FlushPass(kind, dt, kind2, late)
  \/ FlushProgExit

\* =========================================================================
\* Sessions side by side (YieldSpec)
\* =========================================================================
\* The Session Process of ProcSpec, as the process of a session the registry
\* part does not hold, runs beside the registry coroutines on one event loop.

\* registry operations invoked beside the detailed Session Process
YieldOps == 3

\* The waits a coroutine can be suspended at.
Waits == {"idle", "read", "stream", "grace"}

\* HoldsLoop with a fault: terminate waits for the exit with a blocking call.
HoldsLoopInGrace(wait) == wait = "grace"

\* Whether a coroutine suspended at a wait keeps the event loop to itself.
\* "idle" is await asyncio.sleep(0.01) of the read loop, "read" is await
\* loop.run_in_executor(None, self._try_read_pty, 1024) on the descriptor
\* start() made non-blocking, "stream" is await asyncio.wait_for(
\* self.output_queue.get(), timeout=1.0) and "grace" is await
\* asyncio.wait_for(self.process.wait(), timeout=timeout). Each is an await,
\* which returns control to the event loop: none holds it.
HoldsLoop(wait) == FALSE

\* The waits the coroutines of the detailed Session Process are suspended at.
ProcWaits ==
  {w \in Waits :
     \/ w = "idle" /\ cp.task = "sleeping"
     \/ w = "read" /\ cp.task = "reading"
     \/ w = "stream" /\ snd.pc = "stream"
     \/ w = "grace" /\ \E t \in Terms : term[t].pc \in {"wait", "waitk"}}

\* The waits registry coroutine c is suspended at, inside the process call
\* it awaits (terminate() in terminate_session and restart_session,
\* read_output() in send_message).
RegWaits(c) ==
  {w \in Waits :
     \/ w = "grace" /\ calls[c].pc \in {"t_wait", "r_wait"}
     \/ w = "stream" /\ calls[c].pc = "m_stream"}

\* The event loop can run registry coroutine c: no other coroutine holds it.
RegTurn(c) ==
  /\ \A w \in ProcWaits : ~HoldsLoop(w)
  /\ \A d \in Calls \ {c} : \A w \in RegWaits(d) : ~HoldsLoop(w)

\* The event loop can run a coroutine of the detailed Session Process.
ProcTurn == \A d \in Calls : \A w \in RegWaits(d) : ~HoldsLoop(w)

\* The next step of registry coroutine c, whatever it is suspended at.
RegStep(c) ==
  \/ \E ok \in BOOLEAN : CreateStart(c, ok)
  \/ CreateUpdate(c)
  \/ CreateStore(c)
  \/ SetActiveCheck(c)
  \/ TerminateWaited(c)
  \/ TerminateUpdate(c)
  \/ TerminateClear(c)
  \/ \E ok \in BOOLEAN : RestartCheck(c, ok)
  \/ \E ok \in BOOLEAN : RestartWaited(c, ok)
  \/ RestartUpdate(c)
  \/ RestartStore(c)
  \/ SendUpdate(c)
  \/ SendYield(c)
  \/ SendEnd(c)

\* The next step of the read task of the detailed Session Process.
ReadTaskStep ==
  \/ TaskBegin
  \/ LoopPass(FALSE, FALSE, 0)
  \/ LoopWake

\* The registry coroutines, and beside them the detailed Session Process
\* with its read task (its program writes nothing and nothing is sent to it).
YieldNext ==
  \/ \E c \in Calls, u \in Users : ops < YieldOps /\ RegTurn(c) /\ CreateCall(c, u)
  \/ \E c \in Calls, u \in Users, s \in Sids : ops < YieldOps /\ RegTurn(c) /\ SetActiveCall(c, u, s)
  \/ \E c \in Calls, s \in Sids : ops < YieldOps /\ RegTurn(c) /\ TerminateCall(c, s)
  \/ \E c \in Calls, s \in Sids : ops < YieldOps /\ RegTurn(c) /\ RestartCall(c, s)
  \/ \E c \in Calls, s \in Sids : ops < YieldOps /\ RegTurn(c) /\ SendCall(c, s)
  \/ \E c \in Calls : RegTurn(c) /\ RegStep(c)
  \/ \E p \in Procs : ProcExit(p)
  \/ ProcTurn /\ Start("ok")
  \/ ProgExit
  \/ ProcTurn /\ ReadTaskStep

\* =========================================================================
\* The classifier and the prompt extractor (DocSpec)
\* =========================================================================
\* lines in a text
MaxLines == 3
\* _is_confirmation: len(text) < 500
ShortText == 500
\* _is_working: text_lower[:100]
WorkingHead == 100
\* _has_numbered_options: len(matches) >= 2
MinOptions == 2
\* parse_prompt: an option text shorter than 2 characters is skipped
MinOptionText == 2
\* parse_prompt: question_lines[:6], len(clean_line) > 3, len(question) < 10
QuestionLines == 6
QuestionLineMin == 3
QuestionMin == 10

\* The lines a text is made of, joined by "\n". None has outer whitespace or
\* an escape sequence. Each is given by what the patterns of the code find
\* in it:
\*   len     its length in characters
\*   opt     option_pattern of _has_numbered_options matches it
\*   label   group 1 of option_pattern of parse_prompt, 0 when no match
\*   tlen    the length of group 2 of that pattern, stripped
\*   cue     one of the first three confirmation_patterns matches it
\*   q       it ends with a question mark
\*   err     it contains one of error_indicators
\*   work    the end of the first of working_indicators in it, 0 when none
\*   done    it contains one of completion_indicators
\*   ind     it contains one of prompt_indicators
\*   num     it starts with a number and a period
LineTable ==
  << \* 1: ""
     [len |-> 0, opt |-> FALSE, label |-> 0, tlen |-> 0, cue |-> FALSE, q |-> FALSE,
      err |-> FALSE, work |-> 0, done |-> FALSE, ind |-> FALSE, num |-> FALSE],
     \* 2: "1. Yes, proceed"
     [len |-> 15, opt |-> TRUE, label |-> 1, tlen |-> 12, cue |-> TRUE, q |-> FALSE,
      err |-> FALSE, work |-> 0, done |-> FALSE, ind |-> TRUE, num |-> TRUE],
     \* 3: "2. No, exit"
     [len |-> 11, opt |-> TRUE, label |-> 2, tlen |-> 8, cue |-> TRUE, q |-> FALSE,
      err |-> FALSE, work |-> 0, done |-> FALSE, ind |-> TRUE, num |-> TRUE],
     \* 4: "1. Retry failed step"
     [len |-> 20, opt |-> TRUE, label |-> 1, tlen |-> 17, cue |-> FALSE, q |-> FALSE,
      err |-> TRUE, work |-> 0, done |-> FALSE, ind |-> FALSE, num |-> TRUE],
     \* 5: "2. Ignore error"
     [len |-> 15, opt |-> TRUE, label |-> 2, tlen |-> 12, cue |-> FALSE, q |-> FALSE,
      err |-> TRUE, work |-> 0, done |-> FALSE, ind |-> FALSE, num |-> TRUE],
     \* 6: "3. a"
     [len |-> 4, opt |-> TRUE, label |-> 3, tlen |-> 1, cue |-> FALSE, q |-> FALSE,
      err |-> FALSE, work |-> 0, done |-> FALSE, ind |-> FALSE, num |-> TRUE],
     \* 7: "Error: file not found"
     [len |-> 21, opt |-> FALSE, label |-> 0, tlen |-> 0, cue |-> FALSE, q |-> FALSE,
      err |-> TRUE, work |-> 0, done |-> FALSE, ind |-> FALSE, num |-> FALSE],
     \* 8: "Let me check"
     [len |-> 12, opt |-> FALSE, label |-> 0, tlen |-> 0, cue |-> FALSE, q |-> FALSE,
      err |-> FALSE, work |-> 6, done |-> FALSE, ind |-> FALSE, num |-> FALSE],
     \* 9: "All done"
     [len |-> 8, opt |-> FALSE, label |-> 0, tlen |-> 0, cue |-> FALSE, q |-> FALSE,
      err |-> FALSE, work |-> 0, done |-> TRUE, ind |-> FALSE, num |-> FALSE],
     \* 10: "Is it ok?"
     [len |-> 9, opt |-> FALSE, label |-> 0, tlen |-> 0, cue |-> FALSE, q |-> TRUE,
      err |-> FALSE, work |-> 0, done |-> FALSE, ind |-> FALSE, num |-> FALSE],
     \* 11: "plain words"
     [len |-> 11, opt |-> FALSE, label |-> 0, tlen |-> 0, cue |-> FALSE, q |-> FALSE,
      err |-> FALSE, work |-> 0, done |-> FALSE, ind |-> FALSE, num |-> FALSE],
     \* 12: "x" * 100
     [len |-> 100, opt |-> FALSE, label |-> 0, tlen |-> 0, cue |-> FALSE, q |-> FALSE,
      err |-> FALSE, work |-> 0, done |-> FALSE, ind |-> FALSE, num |-> FALSE],
     \* 13: "x" * 400
     [len |-> 400, opt |-> FALSE, label |-> 0, tlen |-> 0, cue |-> FALSE, q |-> FALSE,
      err |-> FALSE, work |-> 0, done |-> FALSE, ind |-> FALSE, num |-> FALSE] >>

LineIds == DOMAIN LineTable

Categories == {"PROMPT", "CONFIRMATION", "INFO", "ERROR", "WORKING", "COMPLETE"}

\* parse_prompt returning None.
NoPrompt == [found |-> FALSE, options |-> <<>>, question |-> <<>>, generic |-> FALSE]

DocInit == doc = [lines |-> <<>>, cat |-> "none", parsed |-> FALSE, prompt |-> NoPrompt]

\* str.strip() of the text: the blank lines at its ends go.
RECURSIVE StripLeft(_)
StripLeft(ls) == IF ls # <<>> /\ LineTable[Head(ls)].len = 0 THEN StripLeft(Tail(ls)) ELSE ls

RECURSIVE StripRight(_)
StripRight(ls) ==
  IF ls # <<>> /\ LineTable[ls[Len(ls)]].len = 0 THEN StripRight(SubSeq(ls, 1, Len(ls) - 1)) ELSE ls

Strip(ls) == StripRight(StripLeft(ls))

\* The number of characters of the first n lines with their newlines.
RECURSIVE CharsUpTo(_, _)
CharsUpTo(ls, n) == IF n = 0 THEN 0 ELSE CharsUpTo(ls, n - 1) + LineTable[ls[n]].len + 1

\* len(text)
TextLen(ls) == IF ls = <<>> THEN 0 ELSE CharsUpTo(ls, Len(ls)) - 1

\* _has_numbered_options: option_pattern.findall finds one match per option
\* line; at least two make a prompt.
has_numbered_options(ls) ==
  Cardinality({i \in DOMAIN ls : LineTable[ls[i]].opt}) >= MinOptions

\* _is_confirmation: a cue anywhere or a question mark at the very end
\* (\?$ without re.MULTILINE), and a short text.
is_confirmation(ls) ==
  /\ \/ \E i \in DOMAIN ls : LineTable[ls[i]].cue
     \/ ls # <<>> /\ LineTable[ls[Len(ls)]].q
  /\ TextLen(ls) < ShortText

\* _is_error
is_error(ls) == \E i \in DOMAIN ls : LineTable[ls[i]].err

\* _is_working: an indicator that lies within the first 100 characters.
is_working(ls) ==
  \E i \in DOMAIN ls :
    /\ LineTable[ls[i]].work > 0
    /\ CharsUpTo(ls, i - 1) + LineTable[ls[i]].work <= WorkingHead

\* _is_complete
is_complete(ls) == \E i \in DOMAIN ls : LineTable[ls[i]].done

\* classify_response with a fault: the error rule is tried before the
\* confirmation rule.
ClassifyErrorFirst(ls) ==
  LET clean == Strip(ls)
  IN IF TextLen(clean) = 0 THEN "INFO"
     ELSE IF has_numbered_options(clean) THEN "PROMPT"
     ELSE IF is_error(clean) THEN "ERROR"
     ELSE IF is_confirmation(clean) THEN "CONFIRMATION"
     ELSE IF is_working(clean) THEN "WORKING"
     ELSE IF is_complete(clean) THEN "COMPLETE"
     ELSE "INFO"

\* classify_response
classify_response(ls) ==
  LET clean == Strip(ls)
  IN IF TextLen(clean) = 0 THEN "INFO"
     ELSE IF has_numbered_options(clean) THEN "PROMPT"
     ELSE IF is_confirmation(clean) THEN "CONFIRMATION"
     ELSE IF is_error(clean) THEN "ERROR"
     ELSE IF is_working(clean) THEN "WORKING"
     ELSE IF is_complete(clean) THEN "COMPLETE"
     ELSE "INFO"

\* The options parse_prompt extracts: one for each line option_pattern
\* matches with a text of at least two characters, in order.
RECURSIVE Options(_)
Options(ls) ==
  IF ls = <<>> THEN <<>>
  ELSE LET l == LineTable[Head(ls)]
       IN IF l.label # 0 /\ l.tlen >= MinOptionText
          THEN <<[number |-> l.label, text |-> Head(ls)]>> \o Options(Tail(ls))
          ELSE Options(Tail(ls))

\* The lines parse_prompt keeps for the question: not empty, not starting
\* with a number and a period, longer than three characters (none of the
\* lines is a footer instruction).
RECURSIVE QuestionOf(_)
QuestionOf(ls) ==
  IF ls = <<>> THEN <<>>
  ELSE LET l == LineTable[Head(ls)]
       IN IF ~l.num /\ l.len > QuestionLineMin
          THEN <<Head(ls)>> \o QuestionOf(Tail(ls))
          ELSE QuestionOf(Tail(ls))

\* parse_prompt: None without an indicator phrase, None without an option,
\* else the options and the question (the first six kept lines, or the
\* generic question when these are shorter than ten characters).
parse_prompt(ls) ==
  IF ~\E i \in DOMAIN ls : LineTable[ls[i]].ind THEN NoPrompt
  ELSE IF Options(ls) = <<>> THEN NoPrompt
  ELSE LET kept == QuestionOf(ls)
           first == SubSeq(kept, 1, IF Len(kept) < QuestionLines THEN Len(kept) ELSE QuestionLines)
       IN [found |-> TRUE, options |-> Options(ls),
           question |-> IF TextLen(first) < QuestionMin THEN <<>> ELSE first,
           generic |-> TextLen(first) < QuestionMin]

\* The caller builds a text, line by line.
DocType(l) ==
  /\ doc.cat = "none" /\ ~doc.parsed
  /\ Len(doc.lines) < MaxLines
  /\ doc' = [doc EXCEPT !.lines = Append(@, l)]
  /\ UNCHANGED <<regVars, procVars, rl, tx, rd, fdx, gate>>

\* classify_response(text)
DocClassify ==
  /\ doc.cat = "none"
  /\ doc' = [doc EXCEPT !.cat = classify_response(doc.lines)]
  /\ UNCHANGED <<regVars, procVars, rl, tx, rd, fdx, gate>>

\* extract_prompt_details(text), which is parse_prompt(text)
DocExtract ==
  /\ ~doc.parsed
  /\ doc' = [doc EXCEPT !.parsed = TRUE, !.prompt = parse_prompt(doc.lines)]
  /\ UNCHANGED <<regVars, procVars, rl, tx, rd, fdx, gate>>

DocNext ==
  \/ \E l \in LineIds : DocType(l)
  \/ DocClassify
  \/ DocExtract

\* =========================================================================
\* The sanitizer (SanSpec) and the read loop with contents (ReadSpec)
\* =========================================================================
\* characters in a string given to the sanitizer
MaxText == 6
\* characters the program writes to the terminal in one run
MaxStream == 4

\* The terminal alphabet: ESC (\x1B), "[", a parameter byte ("1" stands for a
\* digit or ";"), the letters "m" and "H" (final bytes, and plain text), and
\* a space (whitespace).
Alphabet == {"ESC", "[", "1", "m", "H", " "}

\* The character classes of ANSI_ESCAPE, cut to the alphabet:
\* [@-Z\\-_] (0x40-0x5A, 0x5C-0x5F), [0-?], [ -/], [@-~], [0-9;], [a-zA-Z].
FeBytes == {"H"}
ParamBytes == {"1"}
InterBytes == {" "}
FinalBytes == {"[", "m", "H"}
BareParams == {"1"}
BareFinals == {"m", "H"}

\* The number of characters of s from position i on that lie in class.
RECURSIVE Run(_, _, _)
Run(s, i, class) == IF i <= Len(s) /\ s[i] \in class THEN 1 + Run(s, i + 1, class) ELSE 0

\* The length of the match of ANSI_ESCAPE at position i of s, 0 when it does
\* not match there. The classes of the quantified parts are disjoint from
\* what follows them, so the greedy match is the only one.
MatchLen(s, i) ==
  IF s[i] = "ESC" /\ i < Len(s)
  THEN IF s[i + 1] \in FeBytes THEN 2
       ELSE IF s[i + 1] = "["
       THEN LET p == Run(s, i + 2, ParamBytes)
                q == Run(s, i + 2 + p, InterBytes)
                f == i + 2 + p + q
            IN IF f <= Len(s) /\ s[f] \in FinalBytes THEN f - i + 1 ELSE 0
       ELSE 0
  ELSE IF s[i] = "["
  THEN LET p == Run(s, i + 1, BareParams)
           f == i + 1 + p
       IN IF p >= 1 /\ f <= Len(s) /\ s[f] \in BareFinals THEN f - i + 1 ELSE 0
  ELSE 0

\* ANSI_ESCAPE.sub('', s) from position i on: the leftmost match is cut
\* out, the scan goes on behind it; a character no match starts at stays.
RECURSIVE SubFrom(_, _)
SubFrom(s, i) ==
  IF i > Len(s) THEN <<>>
  ELSE IF MatchLen(s, i) > 0 THEN SubFrom(s, i + MatchLen(s, i))
  ELSE <<s[i]>> \o SubFrom(s, i + 1)

\* clean_text = ANSI_ESCAPE.sub('', text)
sanitize(s) == SubFrom(s, 1)

\* not clean_text.strip(): only whitespace, or nothing.
Blank(s) == \A i \in DOMAIN s : s[i] = " "

SanInit == tx = [text |-> <<>>, clean |-> <<>>, done |-> FALSE]

\* The string grows by one character.
TxType(ch) ==
  /\ ~tx.done
  /\ Len(tx.text) < MaxText
  /\ tx' = [tx EXCEPT !.text = Append(@, ch)]
  /\ UNCHANGED <<regVars, procVars, rl, doc, rd, fdx, gate>>

\* The string is sanitized.
TxSanitize ==
  /\ ~tx.done
  /\ tx' = [tx EXCEPT !.clean = sanitize(tx.text), !.done = TRUE]
  /\ UNCHANGED <<regVars, procVars, rl, doc, rd, fdx, gate>>

SanNext ==
  \/ \E ch \in Alphabet : TxType(ch)
  \/ TxSanitize

\* pend = the characters on the terminal not yet read; typed = how many the
\* program wrote; buffer = the local buffer of _read_output; queue = the
\* Output Units put on the queue; chunks = the texts the reads returned, in
\* order (history); fresh = the last read that returned data set
\* last_output_time (history).
ReadInit ==
  rd = [pend |-> <<>>, typed |-> 0, buffer |-> <<>>, queue |-> <<>>, chunks |-> <<>>,
        fresh |-> TRUE, alive |-> TRUE, task |-> "loop"]

\* The program writes one character to the terminal.
RdProgWrite(ch) ==
  /\ rd.alive
  /\ rd.typed < MaxStream
  /\ rd' = [rd EXCEPT !.pend = Append(@, ch), !.typed = @ + 1]
  /\ UNCHANGED <<regVars, procVars, rl, doc, tx, fdx, gate>>

\* The program exits.
RdProgExit ==
  /\ rd.alive
  /\ rd' = [rd EXCEPT !.alive = FALSE]
  /\ UNCHANGED <<regVars, procVars, rl, doc, tx, fdx, gate>>

\* buffer += clean_text, under "if clean_text.strip()"
Appended(buffer, text) == IF Blank(sanitize(text)) THEN buffer ELSE buffer \o sanitize(text)

\* One pass of the loop. The read returns the first n characters on the
\* terminal (the rest arrived after it; nothing when n = 0); the sanitized
\* text is added to the buffer unless it is blank; the buffer is flushed
\* when due (the quiet period has passed, which it has not in a pass that
\* added text); if the process has exited the loop reads once more, what is
\* left on the terminal, flushes and ends.
RdPass(due, n) ==
  /\ rd.task = "loop"
  /\ n <= Len(rd.pend)
  /\ LET text == SubSeq(rd.pend, 1, n)
         rest == SubSeq(rd.pend, n + 1, Len(rd.pend))
         buf1 == Appended(rd.buffer, text)
         fl == buf1 # <<>> /\ due
         q1 == IF fl THEN Append(rd.queue, buf1) ELSE rd.queue
         buf2 == IF fl THEN <<>> ELSE buf1
         buf3 == Appended(buf2, rest)
     IN /\ due => Blank(sanitize(text))
        /\ rd' = IF rd.alive
                 THEN [rd EXCEPT !.pend = rest, !.buffer = buf2, !.queue = q1,
                                 !.chunks = @ \o (IF text = <<>> THEN <<>> ELSE <<text>>),
                                 !.fresh = IF text = <<>> THEN @ ELSE ~Blank(sanitize(text))]
                 ELSE [rd EXCEPT !.pend = <<>>, !.buffer = <<>>, !.task = "done",
                                 !.queue = IF buf3 # <<>> THEN Append(q1, buf3) ELSE q1,
                                 !.chunks = @ \o (IF text = <<>> THEN <<>> ELSE <<text>>)
                                              \o (IF rest = <<>> THEN <<>> ELSE <<rest>>),
                                 !.fresh = IF text = <<>> THEN @ ELSE ~Blank(sanitize(text))]
  /\ UNCHANGED <<regVars, procVars, rl, doc, tx, fdx, gate>>

ReadNext ==
  \/ \E ch \in Alphabet : RdProgWrite(ch)
  \/ RdProgExit
  \/ \E due \in BOOLEAN, n \in 0..MaxStream : RdPass(due, n)

\* =========================================================================
\* The controlling descriptor and the executor threads (FdSpec)
\* =========================================================================
\* loop.run_in_executor(None, f, ...) hands f to a thread of the default
\* pool: f runs later, beside the event loop. _read_output hands over
\* self._try_read_pty, which tests self._master_fd and then calls os.read on
\* it; send_input hands over os.write with the descriptor number it read
\* from self._master_fd at the call.

\* field  = self._master_fd is set (not None)
\* open   = the descriptor number names this process's terminal
\* reused = the number, closed, was given out again by a later pty.openpty()
\*          of another Session Process
\* task   = the read task: "none", "top" (about to read), "await" (awaiting
\*          the executor), "sleep", "done"
\* rd     = the read handed to the executor: "none", "queued", "checked"
\*          (the test of self._master_fd passed, os.read not yet called),
\*          "returned"
\* wr     = the os.write calls handed to the executor and not yet run
\* sends  = send_input calls so far
\* alive  = the program runs
\* acts   = what the threads did on the descriptor number (history)
FdInit ==
  fdx = [field |-> FALSE, open |-> FALSE, reused |-> FALSE, task |-> "none",
         rd |-> "none", wr |-> 0, sends |-> 0, alive |-> FALSE, started |-> FALSE,
         terminated |-> FALSE, acts |-> {}]

\* What a call on the descriptor number meets: the terminal of this
\* process, a closed number (EBADF), or the terminal of another process.
Target == IF fdx.open THEN "own" ELSE IF fdx.reused THEN "other" ELSE "closed"

\* start(): pty.openpty(), the launch, the read task.
FdStart ==
  /\ ~fdx.started
  /\ fdx' = [fdx EXCEPT !.started = TRUE, !.field = TRUE, !.open = TRUE,
                        !.alive = TRUE, !.task = "top"]
  /\ UNCHANGED <<regVars, procVars, rl, textVars, gate>>

\* The program exits.
FdProgExit ==
  /\ fdx.alive
  /\ fdx' = [fdx EXCEPT !.alive = FALSE]
  /\ UNCHANGED <<regVars, procVars, rl, textVars, gate>>

\* The finally of _read_output and of terminate: os.close(self._master_fd);
\* self._master_fd = None, if it is not None.
Released(f) == IF f.field THEN [f EXCEPT !.field = FALSE, !.open = FALSE] ELSE f

\* The loop hands a read to the executor and awaits it.
FdReadDispatch ==
  /\ fdx.task = "top"
  /\ fdx' = [fdx EXCEPT !.task = "await", !.rd = "queued"]
  /\ UNCHANGED <<regVars, procVars, rl, textVars, gate>>

\* The thread starts _try_read_pty: "if self._master_fd is None: return b''".
FdReadCheck ==
  /\ fdx.rd = "queued"
  /\ fdx' = [fdx EXCEPT !.rd = IF fdx.field THEN "checked" ELSE "returned"]
  /\ UNCHANGED <<regVars, procVars, rl, textVars, gate>>

\* The thread calls os.read(self._master_fd, size) with the number it found.
FdReadRun ==
  /\ fdx.rd = "checked"
  /\ fdx' = [fdx EXCEPT !.rd = "returned", !.acts = @ \cup {<<"read", Target>>}]
  /\ UNCHANGED <<regVars, procVars, rl, textVars, gate>>

\* The awaited read is back: the rest of the pass. With the program exited
\* the loop does its last read itself, breaks and releases the descriptor in
\* its finally; else it sleeps.
FdPassRest ==
  /\ fdx.task = "await" /\ fdx.rd = "returned"
  /\ fdx' = IF fdx.alive THEN [fdx EXCEPT !.task = "sleep", !.rd = "none"]
            ELSE [Released(fdx) EXCEPT !.task = "done", !.rd = "none"]
  /\ UNCHANGED <<regVars, procVars, rl, textVars, gate>>

\* asyncio.sleep(0.01) is over.
FdWake ==
  /\ fdx.task = "sleep"
  /\ fdx' = [fdx EXCEPT !.task = "top"]
  /\ UNCHANGED <<regVars, procVars, rl, textVars, gate>>

\* send_input: refused when self._master_fd is None, else os.write with the
\* current number is handed to the executor.
FdSendDispatch ==
  /\ fdx.started
  /\ fdx.sends < MaxInputs
  /\ fdx' = IF fdx.field THEN [fdx EXCEPT !.sends = @ + 1, !.wr = @ + 1]
            ELSE [fdx EXCEPT !.sends = @ + 1]
  /\ UNCHANGED <<regVars, procVars, rl, textVars, gate>>

\* A thread runs the os.write.
FdWriteRun ==
  /\ fdx.wr > 0
  /\ fdx' = [fdx EXCEPT !.wr = @ - 1, !.acts = @ \cup {<<"write", Target>>}]
  /\ UNCHANGED <<regVars, procVars, rl, textVars, gate>>

\* terminate() from the end of its wait: the read task is cancelled and
\* awaited (a read still queued in the executor is cancelled with it, one a
\* thread has begun goes on), the task's finally and then terminate release
\* the descriptor.
FdTerminate ==
  /\ fdx.started /\ ~fdx.terminated
  /\ fdx' = [Released(fdx) EXCEPT !.terminated = TRUE, !.alive = FALSE, !.task = "done",
                                  !.rd = IF fdx.rd = "queued" THEN "none" ELSE @]
  /\ UNCHANGED <<regVars, procVars, rl, textVars, gate>>

\* pty.openpty() in the start() of another Session Process: the kernel gives
\* out the lowest free numbers, so a released number can come back.
FdOtherOpen ==
  /\ fdx.started /\ ~fdx.open /\ ~fdx.reused
  /\ fdx' = [fdx EXCEPT !.reused = TRUE]
  /\ UNCHANGED <<regVars, procVars, rl, textVars, gate>>

FdNext ==
  \/ FdStart
  \/ FdProgExit
  \/ FdReadDispatch
  \/ FdReadCheck
  \/ FdReadRun
  \/ FdPassRest
  \/ FdWake
  \/ FdSendDispatch
  \/ FdWriteRun
  \/ FdTerminate
  \/ FdOtherOpen

\* =========================================================================
\* The authorization wrapper of the handlers (AuthSpec)
\* =========================================================================
\* updates handled in one run
MaxUpdates == 3

\* register_handlers: every handler is registered as authorized(handler).
\* These are the handlers that call the registry, and start_command.
Handlers == {"start", "new", "switch", "kill", "restart", "message", "button"}

\* What a handler asks of the session manager.
RegistryOp(h) ==
  CASE h = "new" -> "create_session"
    [] h = "switch" -> "set_active_session"
    [] h = "kill" -> "terminate_session"
    [] h = "restart" -> "restart_session"
    [] h = "message" -> "send_message"
    [] h = "button" -> "send_input"
    [] OTHER -> "none"

\* update.message is set for the updates of the command and message
\* handlers; the update of the CallbackQueryHandler carries callback_query
\* and its message field is None.
HasMessage(h) == h # "button"

NoUpdate == [id |-> 0, user |-> 0, handler |-> "none"]

\* authorized = authorized_user_id (0: None, or the falsy id 0)
\* pc         = where the wrapper stands: "idle", "reply" (awaiting
\*              reply_text), "audit" (awaiting add_audit_log)
\* seen       = the updates given to the wrapper, in order
\* reached    = the updates whose handler was called
\* ops        = the registry operations the handlers asked for
\* audit      = the audit-log entries added
\* raised     = the updates whose wrapper ended on an exception
AuthInit ==
  gate = [built |-> FALSE, authorized |-> 0, pc |-> "idle", cur |-> NoUpdate,
          seen |-> <<>>, reached |-> {}, ops |-> {}, audit |-> <<>>, raised |-> {}]

\* BotHandlers(session_manager, db, authorized_user_id=a)
Configure(a) ==
  /\ ~gate.built
  /\ gate' = [gate EXCEPT !.built = TRUE, !.authorized = a]
  /\ UNCHANGED <<regVars, procVars, rl, textVars, fdx>>

\* "if self.authorized_user_id and user_id != self.authorized_user_id"
Unauthorized(u) == gate.authorized # 0 /\ u # gate.authorized

\* wrapper(update, context) up to its first await: the test; for another
\* user update.message.reply_text(...), which raises AttributeError when
\* update.message is None; else the handler.
WrapperCall(u, h) ==
  /\ gate.built /\ gate.pc = "idle"
  /\ Len(gate.seen) < MaxUpdates
  /\ LET id == Len(gate.seen) + 1
         g == [gate EXCEPT !.seen = Append(@, [user |-> u, handler |-> h])]
     IN gate' = IF Unauthorized(u)
                THEN IF HasMessage(h)
                     THEN [g EXCEPT !.pc = "reply", !.cur = [id |-> id, user |-> u, handler |-> h]]
                     ELSE [g EXCEPT !.raised = @ \cup {id}]
                ELSE [g EXCEPT !.reached = @ \cup {id},
                               !.ops = @ \cup {<<id, u, RegistryOp(h)>>}]
  /\ UNCHANGED <<regVars, procVars, rl, textVars, fdx>>

\* reply_text returns, or raises (a network error of the chat platform).
WrapperReplied(ok) ==
  /\ gate.pc = "reply"
  /\ gate' = IF ok THEN [gate EXCEPT !.pc = "audit"]
             ELSE [gate EXCEPT !.pc = "idle", !.cur = NoUpdate, !.raised = @ \cup {gate.cur.id}]
  /\ UNCHANGED <<regVars, procVars, rl, textVars, fdx>>

\* db.add_audit_log(AuditLog(user_id, action="unauthorized_access",
\* success=False)) returns; return.
WrapperAudit ==
  /\ gate.pc = "audit"
  /\ gate' = [gate EXCEPT !.pc = "idle", !.cur = NoUpdate,
                          !.audit = Append(@, [id |-> gate.cur.id, user |-> gate.cur.user,
                                               action |-> "unauthorized_access", success |-> FALSE])]
  /\ UNCHANGED <<regVars, procVars, rl, textVars, fdx>>

AuthNext ==
  \/ \E a \in {0} \cup Users : Configure(a)
  \/ \E u \in Users, h \in Handlers : WrapperCall(u, h)
  \/ \E ok \in BOOLEAN : WrapperReplied(ok)
  \/ WrapperAudit

\* ------------------------------------------------------------ specifications
Init == RegInit /\ ProcInit /\ FlushInit /\ DocInit /\ SanInit /\ ReadInit /\ FdInit /\ AuthInit

Spec == Init /\ [][RegNext]_vars

ProcSpec == Init /\ [][ProcNext]_vars

InputSpec == Init /\ [][InputNext]_vars

FlushSpec == Init /\ [][FlushNext]_vars

YieldSpec == Init /\ [][YieldNext]_vars

DocSpec == Init /\ [][DocNext]_vars

SanSpec == Init /\ [][SanNext]_vars

ReadSpec == Init /\ [][ReadNext]_vars

FdSpec == Init /\ [][FdNext]_vars

AuthSpec == Init /\ [][AuthNext]_vars

\* ProcSpec with the scheduling the event loop gives the send_message
\* generator: a step of it that stays possible is eventually taken (its
\* consumer keeps iterating, the wait_for timer fires).
ProcLive ==
  /\ ProcSpec
  /\ WF_vars(SendMsgUpdate) /\ WF_vars(ReadGet) /\ WF_vars(ReadSlice) /\ WF_vars(ReadEnd)

\* =========================================================================
\* Properties
\* =========================================================================
\* The running process objects of session s.
Running(s) == {p \in Procs : procs[p].sid = s /\ procs[p].st = "running"}

\* C1: at any time at most one started and not yet terminated Session
\* Process exists for a session identifier, under any interleaving of
\* createSession, restartSession and terminateSession.
C1_OneProcessPerSession == \A s \in Sids : Cardinality(Running(s)) <= 1

\* C2: once a session's persisted status is TERMINATED no registry operation
\* changes it.
C2_TerminatedIsFinal ==
  [][\A s \in Sids : db[s].status = "terminated" => db'[s].status = "terminated"]_vars

\* C2, amended: a TERMINATED status is changed only by restart_session's
\* database update, which sets it to ACTIVE; createSession, setActiveSession,
\* terminateSession and sendMessage never change it.
C2_TerminatedLeftOnlyByRestart ==
  [][\A s \in Sids :
       db[s].status = "terminated" /\ db'[s].status # "terminated"
         => /\ db'[s].status = "active"
            /\ \E c \in Calls : /\ calls[c].op = "restart" /\ calls[c].sid = s
                                /\ calls[c].pc = "r_update" /\ calls'[c].pc = "r_store"]_vars

\* A sendMessage was refused on a session that stays TERMINATED.
C2_Witness ==
  \E s \in Sids, c \in Calls :
    /\ db[s].status = "terminated"
    /\ calls[c].op = "send" /\ calls[c].sid = s /\ calls[c].pc = "done"

\* C3: when sendMessage finds the live process not alive, the persisted
\* status becomes CRASHED as the failure is raised.
C3_CrashIsPersisted ==
  [][\A c \in Calls :
       calls[c] # calls'[c] /\ calls'[c].op = "send" /\ calls'[c].ret = "crashed"
         => db'[calls'[c].sid].status = "crashed"]_vars

\* The step in which operation op is invoked on session s in slot c.
Invoked(c, op, s) ==
  FreeSlot(c) /\ ops' = ops + 1 /\ calls'[c].op = op /\ calls'[c].sid = s

\* C5: sendMessage for an identifier with no live-map entry, or whose live
\* process is not alive, fails at once: no input is written, the record is
\* not updated and no chunk is yielded.
C5_SendFailsFast ==
  [][\A c \in Calls, s \in Sids :
       Invoked(c, "send", s) /\ (sessions[s] = 0 \/ ~is_alive(sessions[s]))
         => /\ calls'[c].pc = "done"
            /\ calls'[c].ret \in {"notrunning", "crashed"}
            /\ ~calls'[c].wrote /\ ~calls'[c].hasOut /\ ~calls'[c].synth
            /\ db' = db /\ procs' = procs]_vars

\* A sendMessage has failed on a session whose live process had exited.
C5_Witness ==
  \E c \in Calls :
    /\ calls[c].op = "send" /\ calls[c].pc = "done" /\ calls[c].ret = "crashed"
    /\ sessions[calls[c].sid] # 0 /\ ~is_alive(sessions[calls[c].sid])

\* The real Output Units among the chunks of the current send_message.
RealChunks == {i \in 1..Len(snd.chunks) : snd.chunks[i] # Synthetic}

\* C4: the units yielded over successive readOutput calls are a prefix of the
\* units flushed by the read loop, in the same order, none skipped and none
\* repeated: what was flushed is what was yielded followed by what is queued.
C4_YieldedIsPrefixOfFlushed ==
  /\ Len(yielded) <= Len(flushed)
  /\ \A i \in 1..Len(yielded) : yielded[i] = flushed[i]
  /\ flushed = yielded \o cp.queue
  /\ \A i, j \in 1..Len(yielded) : i # j => yielded[i] # yielded[j]

\* Two sendMessage streams have each yielded units, two or more in all.
C4_Witness ==
  /\ snd.n = 2 /\ RealChunks # {}
  /\ Len(yielded) > Cardinality(RealChunks)
  /\ Len(flushed) > Len(yielded)

\* C7: a sendMessage that does not fail yields the fallback chunk if and only
\* if its stream ended with zero Output Units; the fallback chunk comes at
\* most once and last.
C7_SyntheticIffNoOutput ==
  /\ \A i \in 1..Len(snd.chunks) :
       snd.chunks[i] = Synthetic => i = Len(snd.chunks) /\ snd.pc = "done"
  /\ snd.pc = "done" /\ snd.ret = "ended"
       => ((\E i \in 1..Len(snd.chunks) : snd.chunks[i] = Synthetic) <=> RealChunks = {})

\* A stream ended with no unit and the fallback chunk was yielded.
C7_Witness == snd.pc = "done" /\ snd.ret = "ended" /\ snd.chunks = <<Synthetic>>

\* C8: over any sequence of terminate calls and the read loop's own exit the
\* controlling descriptor is closed exactly once and the subordinate one
\* exactly once; a terminate called after an earlier one has returned
\* releases nothing.
C8_DescriptorsClosedOnce ==
  /\ cp.masterCloses <= 1 /\ cp.slaveCloses <= 1
  /\ \A t \in Terms :
       /\ term[t].pc = "done" /\ term[t].live => cp.masterCloses = 1 /\ cp.slaveCloses = 1
       /\ term[t].again => term[t].closed = 0

\* terminate has been called again after a terminate had returned, and has
\* returned too.
C8_Witness == \E t \in Terms : term[t].again /\ term[t].pc = "done"

\* C9: terminate on a started process cancels the read task and waits for it
\* before it releases descriptors itself; when it returns the read task is
\* done, is_alive is false and no descriptor of the process is open.
C9_TerminateJoinsReadTask ==
  [][\A t \in Terms :
       /\ term'[t].pc = "done" /\ term'[t].live
            => cp'.task = "done" /\ cp'.process = "exited" /\ ~cp'.masterOpen /\ ~cp'.slaveOpen
       /\ term[t].pc # "done" /\ term'[t].pc = "done" /\ term'[t].live
            => cp.task = "done"
       /\ term[t].pc # "join" /\ term'[t].pc = "join"
            => cp.task \notin {"none", "done"} /\ cp'.cancelReq]_vars

\* A terminate that cancelled a running read task has returned.
C9_Witness ==
  \E t \in Terms :
    /\ term[t].pc = "done" /\ term[t].sigterm /\ term[t].closed = 0
    /\ cp.cancelReq /\ cp.masterCloses = 1

\* C10: terminate first requests graceful shutdown; the kill is issued if
\* and only if the process has not exited when the grace period ends; either
\* way the process has exited when terminate returns.
C10_KillIffGraceExpired ==
  \A t \in Terms :
    /\ term[t].killed <=> term[t].timedOut
    /\ term[t].killed => term[t].sigterm
    /\ term[t].pc = "done" /\ term[t].live => cp.process = "exited"

\* A terminate whose grace period ran out has killed the process and returned.
C10_Witness == \E t \in Terms : term[t].pc = "done" /\ term[t].killed /\ term[t].timedOut

Returns(c, op) == calls[c].op = op /\ calls[c].pc # "done" /\ calls'[c].pc = "done"

\* C11: when terminateSession(id) returns for an existing session (no other
\* registry operation on id having overlapped it), id has no entry in the
\* live map, the persisted status is TERMINATED and no owner's active
\* selection is id; it returns true whether or not a live process was found.
C11_TerminatePostState ==
  [][\A c \in Calls :
       Returns(c, "terminate") /\ ~calls[c].ovl /\ RecordExists(calls[c].sid)
         => /\ calls'[c].ret = "true"
            /\ sessions'[calls[c].sid] = 0
            /\ db'[calls[c].sid].status = "terminated"
            /\ \A u \in Users : active'[u] # calls[c].sid]_vars

\* A terminateSession that found the live process of a created session has
\* returned true.
C11_Witness ==
  \E c \in Calls :
    /\ calls[c].op = "terminate" /\ calls[c].pc = "done" /\ calls[c].ret = "true"
    /\ ~calls[c].ovl /\ ops = 2
    /\ db[calls[c].sid].status = "terminated"
    /\ \E p \in Procs : procs[p].sid = calls[c].sid /\ procs[p].st = "exited"

\* C12: two overlapping terminateSession calls for the same existing
\* identifier both return true; neither fails because the other has already
\* removed the process from the live map.
C12_OverlappingTerminatesSucceed ==
  [][\A c \in Calls :
       Returns(c, "terminate") /\ RecordExists(calls[c].sid) => calls'[c].ret = "true"]_vars
\* C13: restartSession(id) fails only when no record exists for id, and then
\* returns false; for every existing record, a failing start of the fresh
\* process included, it has no other failure outcome.
C13_RestartFailsOnlyWithoutRecord ==
  [][\A c \in Calls :
       Returns(c, "restart") /\ ~calls[c].ovl
         => /\ calls'[c].ret \in {"true", "false"}
            /\ calls'[c].ret = "false" <=> ~calls[c].found]_vars

\* C13, amended: restartSession(id) returns false exactly when no record
\* exists for id, and then no step of it changes the live map, the active
\* selections, the records or the processes; for an existing record it
\* returns true or, when the start of the fresh process fails, raises the
\* start error, the old process having been terminated and the live map,
\* the selections and the records being as they were.
C13_RestartFalseOrStartError ==
  [][\A c \in Calls :
       /\ Returns(c, "restart") /\ ~calls[c].ovl
            => /\ calls'[c].ret \in {"true", "false", "raised"}
               /\ calls'[c].ret = "false" <=> ~calls[c].found
               /\ calls'[c].ret = "raised"
                    => /\ calls[c].found /\ calls[c].pc \in {"r_got", "r_wait"}
                       /\ db' = db /\ sessions' = sessions /\ active' = active
                       /\ \A p \in Procs : procs'[p].st # "running" \/ procs[p].st = "running"
       /\ \A s \in Sids : Invoked(c, "restart", s)
            => /\ calls'[c].found = RecordExists(s)
               /\ db' = db /\ sessions' = sessions /\ active' = active /\ procs' = procs
       /\ calls[c].op = "restart" /\ ~Free(c) /\ ~calls[c].found /\ calls'[c].pc # calls[c].pc
            => /\ calls'[c].pc = "done" /\ calls'[c].ret = "false"
               /\ db' = db /\ sessions' = sessions /\ active' = active /\ procs' = procs]_vars

\* A restartSession of an existing session has raised the start error and
\* the live map still holds the old process, which has exited.
C13_Witness ==
  \E c \in Calls :
    /\ calls[c].op = "restart" /\ calls[c].pc = "done" /\ calls[c].ret = "raised"
    /\ ~calls[c].ovl /\ RecordExists(calls[c].sid)
    /\ sessions[calls[c].sid] # 0 /\ procs[sessions[calls[c].sid]].st = "exited"
\* What C14 says of the live map, the new process and the record when
\* restartSession in slot c returns true, but for the new process being
\* alive: the process the call started is a new object, is the entry of the
\* live map, has the session's identifier and workspace, and the record is
\* ACTIVE with its process identifier; and at the step that starts it the
\* process the live map held for the session has exited.
RestartedState(c) ==
  /\ Returns(c, "restart") /\ ~calls[c].ovl /\ calls'[c].ret = "true"
       => /\ calls[c].newp # 0 /\ sessions[calls[c].sid] # calls[c].newp
          /\ sessions'[calls[c].sid] = calls[c].newp
          /\ procs'[calls[c].newp].sid = calls[c].sid
          /\ procs'[calls[c].newp].ws = db'[calls[c].sid].ws
          /\ db'[calls[c].sid].status = "active"
          /\ db'[calls[c].sid].pid = calls[c].newp
          /\ calls[c].proc # 0 => procs'[calls[c].proc].st = "exited"
  /\ calls[c].op = "restart" /\ ~calls[c].ovl /\ calls[c].newp = 0 /\ calls'[c].newp # 0
       => /\ procs[calls'[c].newp].st = "unused" /\ procs'[calls'[c].newp].st = "running"
          /\ sessions[calls[c].sid] # 0 => procs'[sessions[calls[c].sid]].st = "exited"

\* C14: when restartSession(id) returns true, the previously live process was
\* terminated before the new one was started, the live map holds a new,
\* alive Session Process for id with the same identifier and workspace, and
\* the persisted status is ACTIVE with the new process identifier.
C14_RestartedProcessAlive ==
  [][\A c \in Calls :
       /\ RestartedState(c)
       /\ Returns(c, "restart") /\ ~calls[c].ovl /\ calls'[c].ret = "true"
            => procs'[calls[c].newp].st = "running"]_vars

\* C14, amended: as C14, except that the new process is the one the call
\* started and need not be alive any more when the call returns: the
\* program may have exited by itself between the start and the return.
C14_RestartedProcessStored == [][\A c \in Calls : RestartedState(c)]_vars

\* A restartSession has returned true for a session that had a live process:
\* the old process has exited and the new one is in the live map.
C14_Witness ==
  \E c \in Calls :
    /\ calls[c].op = "restart" /\ calls[c].pc = "done" /\ calls[c].ret = "true" /\ ~calls[c].ovl
    /\ sessions[calls[c].sid] # 0 /\ procs[sessions[calls[c].sid]].st = "running"
    /\ \E p \in Procs : p # sessions[calls[c].sid] /\ procs[p].sid = calls[c].sid /\ procs[p].st = "exited"
\* C15: if the Session Process fails to start during createSession, the
\* call fails, the record it persisted stays in storage, no live-map entry
\* is added for the new identifier and the owner's active selection is not
\* changed (no step of the failing call changes the live map or a selection).
C15_CreateStartFailure ==
  [][\A c \in Calls :
       /\ \A s \in Sids : Invoked(c, "create", s)
            => sessions' = sessions /\ active' = active /\ calls'[c].pc = "c_start"
       /\ calls[c].pc = "c_start" /\ calls'[c].pc # "c_start"
            => (calls'[c].ret = "raised" <=> procs' = procs)
       /\ Returns(c, "create") /\ calls'[c].ret = "raised"
            => /\ calls[c].pc = "c_start"
               /\ db' = db /\ sessions' = sessions /\ active' = active
               /\ RecordExists(calls[c].sid)
               /\ ~calls[c].ovl
                    => /\ db'[calls[c].sid].user = calls[c].user
                       /\ db'[calls[c].sid].status = "active"
                       /\ sessions'[calls[c].sid] = 0
                       /\ \A u \in Users : active'[u] # calls[c].sid]_vars

\* A createSession has failed at the start of its process for an owner who
\* had an active session: the record is stored, the live map has no entry
\* for it and the owner's selection is still the earlier session.
C15_Witness ==
  \E c \in Calls :
    /\ calls[c].op = "create" /\ calls[c].pc = "done" /\ calls[c].ret = "raised" /\ ~calls[c].ovl
    /\ RecordExists(calls[c].sid) /\ sessions[calls[c].sid] = 0
    /\ active[db[calls[c].sid].user] \notin {0, calls[c].sid}

\* What C16 says when createSession in slot c returns a Session, but for the
\* process being alive: the identifier was allocated new, the record is
\* ACTIVE with the owner and the started process's identifier, the live map
\* holds that process, and the owner's active session is the new one.
CreatedState(c) ==
  /\ \A s \in Sids : Invoked(c, "create", s)
       => ~RecordExists(s) /\ sessions[s] = 0 /\ RecordExists(s)'
  /\ calls[c].op = "create" /\ calls[c].newp = 0 /\ calls'[c].newp # 0
       => procs[calls'[c].newp].st = "unused" /\ procs'[calls'[c].newp].st = "running"
  /\ Returns(c, "create") /\ ~calls[c].ovl /\ calls'[c].ret = "ok"
       => /\ calls[c].newp # 0
          /\ sessions'[calls[c].sid] = calls[c].newp
          /\ procs'[calls[c].newp].sid = calls[c].sid
          /\ db'[calls[c].sid].user = calls[c].user
          /\ db'[calls[c].sid].status = "active"
          /\ db'[calls[c].sid].pid = calls[c].newp
          /\ active'[calls[c].user] = calls[c].sid

\* C16: when createSession(owner) returns a Session its identifier is new,
\* the record is stored ACTIVE with the started process's identifier, the
\* live map holds an alive Session Process for it and getActiveSession(owner)
\* returns it.
C16_CreatedProcessAlive ==
  [][\A c \in Calls :
       /\ CreatedState(c)
       /\ Returns(c, "create") /\ ~calls[c].ovl /\ calls'[c].ret = "ok"
            => procs'[calls[c].newp].st = "running"]_vars

\* C16, amended: as C16, except that the process in the live map is the one
\* the call started and need not be alive any more when the call returns.
C16_CreatedProcessStored == [][\A c \in Calls : CreatedState(c)]_vars

\* A second createSession of an owner has returned: the owner's active
\* session is the new one, whose process is in the live map.
C16_Witness ==
  \E c \in Calls :
    /\ calls[c].op = "create" /\ calls[c].pc = "done" /\ calls[c].ret = "ok" /\ ~calls[c].ovl
    /\ calls[c].sid = 2 /\ db[1].user = db[2].user
    /\ active[db[2].user] = 2 /\ sessions[2] # 0 /\ db[2].pid = sessions[2]
\* C17: setActiveSession(owner, id) returns true and sets owner's selection
\* to id if and only if a record for id exists and its owner is owner;
\* otherwise it returns false and changes no selection. It never changes
\* another owner's selection nor the live map.
C17_SetActiveOwnSessionOnly ==
  [][\A c \in Calls :
       /\ \A s \in Sids : Invoked(c, "setactive", s)
            => /\ calls'[c].found = (RecordExists(s) /\ db[s].user = calls'[c].user)
               /\ active' = active /\ sessions' = sessions /\ db' = db /\ procs' = procs
       /\ Returns(c, "setactive")
            => /\ calls'[c].ret = (IF calls[c].found THEN "true" ELSE "false")
               /\ active' = (IF calls[c].found
                              THEN [active EXCEPT ![calls[c].user] = calls[c].sid]
                              ELSE active)
               /\ sessions' = sessions /\ db' = db /\ procs' = procs
               /\ ~calls[c].ovl
                    => (calls'[c].ret = "true"
                          <=> RecordExists(calls[c].sid) /\ db[calls[c].sid].user = calls[c].user)]_vars

\* An owner of two sessions has switched back to the first: setActiveSession
\* returned true and the selection is the first session.
C17_Witness ==
  \E c \in Calls, u \in Users :
    /\ calls[c].op = "setactive" /\ calls[c].pc = "done" /\ calls[c].ret = "true"
    /\ calls[c].sid = 1 /\ db[1].user = u /\ db[2].user = u /\ active[u] = 1
\* C18: sendInput fails, writing nothing, whenever the process was never
\* started or has already exited or been terminated; it writes the text and
\* a newline only while the process is running.
C18_SendInputOnlyWhileRunning ==
  [][cp'.sendCalls # cp.sendCalls
       => /\ cp.process # "running"
               => cp'.lastSend \in {"refused", "oserror"} /\ cp'.inputs = cp.inputs
          /\ cp'.inputs # cp.inputs => cp.process = "running"]_vars
\* C19: a readOutput(timeout) call ends its sequence without error when the
\* timeout elapses while the process is alive, leaving the process and the
\* queue as they are, so that a later call still receives what is flushed
\* afterwards; it ends before the timeout only when the process has exited
\* and the queue is empty.
C19_ReadTimeoutLeavesQueue ==
  [][snd.pc = "stream" /\ snd'.pc = "done"
       => /\ snd'.ret = "ended"
          /\ cp' = cp /\ pty' = pty /\ flushed' = flushed /\ yielded' = yielded
          /\ flushed = yielded \o cp.queue
          /\ ~TimedOut(snd.elapsed) => cp.process = "exited" /\ cp.queue = <<>>
          /\ cp.process = "running" => TimedOut(snd.elapsed)]_vars

\* A first stream has ended on its timeout with no unit while the process
\* was alive, and the second stream has yielded a unit flushed since; the
\* process is still alive.
C19_Witness ==
  /\ snd.n = 2 /\ RealChunks # {} /\ Len(yielded) = Cardinality(RealChunks)
  /\ cp.process = "running"
\* The step is a pass of the read loop with the program alive.
AlivePass == rl.task = "loop" /\ rl.alive /\ rl'.now # rl.now

\* The pass put a unit on the queue.
PassFlushed == Len(rl'.queue) = Len(rl.queue) + 1

\* The size of the buffer when the pass tested it: what it flushed, or what
\* it left in the buffer.
PassTested ==
  IF PassFlushed THEN rl'.queue[Len(rl'.queue)] ELSE [bytes |-> rl'.bytes, chars |-> rl'.chars]

\* C20: on each poll tick with the process alive the buffer is flushed
\* exactly when it is non-empty and either at least 500 ms have passed since
\* the last successful read or it exceeds 4096 bytes; a 200-byte buffer last
\* read 500 ms ago is flushed, one last read 100 ms ago is not.
C20_FlushAtQuietOrBig ==
  [][AlivePass
       => (PassFlushed <=> /\ PassTested.bytes > 0
                           /\ \/ rl'.now - rl'.lastData >= QuietMs
                              \/ PassTested.bytes > BigBuffer)]_vars

\* C20, amended: on each pass with the process alive the buffer is flushed
\* (put on the queue as one unit, and emptied) exactly when it is non-empty
\* and either more than 500 ms have passed since the last read that added
\* text to it (blank text is not added and does not count) or it holds more
\* than 4096 characters; a 200-character buffer is flushed at 600 ms, and is
\* not at 500 ms nor at 100 ms.
C20_FlushAfterQuietOrBig ==
  [][AlivePass
       => /\ PassFlushed <=> /\ PassTested.chars > 0
                              /\ \/ rl'.now - rl'.last > QuietMs
                                 \/ PassTested.chars > BigBuffer
          /\ PassFlushed => rl'.chars = 0 /\ rl'.bytes = 0 /\ rl'.queue = Append(rl.queue, PassTested)
          /\ ~PassFlushed => rl'.queue = rl.queue
          /\ PassTested.chars = 200 /\ rl'.now - rl'.last = 600 => PassFlushed
          /\ PassTested.chars = 200 /\ rl'.now - rl'.last \in {100, 500} => ~PassFlushed]_vars

\* A pass has tested a 200-character buffer exactly 500 ms after the read
\* that filled it, and has left it in the buffer.
C20_Witness ==
  /\ rl.task = "loop" /\ rl.alive /\ rl.queue = <<>>
  /\ rl.chars = 200 /\ rl.now - rl.last = QuietMs
\* The pass adds a chunk to a buffer that holds an earlier one.
PassMerges == AlivePass /\ rl'.arr # rl.arr /\ rl.chars > 0

\* C21: a burst of output, a silence of at least 500 ms, then a second
\* burst: the loop puts two units on the queue, the first burst then the
\* second; the second burst is never added to the unit of the first.
C21_BurstsNeverMerged ==
  [][PassMerges => rl'.arr - rl.arr < QuietMs]_vars

\* C21, amended: two bursts become two units, the first then the second,
\* when a pass of the loop that reads nothing runs more than 500 ms after
\* the read of the first burst: that pass puts the first burst on the queue
\* as a unit of its own. A burst is added to the buffer of an earlier one
\* only if the pass before ran no more than 500 ms after the earlier one
\* was read, whatever the silence between them was.
C21_BurstsSplitByQuietPass ==
  [][/\ AlivePass /\ rl.chars > 0 /\ rl'.last = rl.last /\ rl'.now - rl.last > QuietMs
          => /\ rl'.queue = Append(rl.queue, [bytes |-> rl.bytes, chars |-> rl.chars])
             /\ rl'.chars = 0 /\ rl'.bytes = 0
     /\ PassMerges => rl.now - rl.last <= QuietMs
     /\ Len(rl'.queue) >= Len(rl.queue)
     /\ SubSeq(rl'.queue, 1, Len(rl.queue)) = rl.queue]_vars

\* A first burst of 200 characters is on the queue as a unit of its own and
\* a second one, read later, is in the buffer.
C21_Witness ==
  /\ rl.task = "loop" /\ rl.alive
  /\ rl.queue = <<[bytes |-> 200, chars |-> 200]>>
  /\ rl.chars = 200 /\ rl.reads = 2
\* C22: under continuous output the buffer is flushed on the first pass at
\* which its size exceeds 4096, so its size is bounded: at most 4096 at the
\* start of every read, and never more than 4096 plus one read of 1024 while
\* the process is alive (the size being the length of the buffered text).
C22_BufferBounded ==
  [][rl.task = "loop" /\ rl.alive
       => /\ rl.chars <= BigBuffer
          /\ AlivePass
               => /\ PassTested.chars <= BigBuffer + ReadMax
                  /\ PassTested.chars > BigBuffer => PassFlushed /\ rl'.chars = 0
                  /\ rl'.chars <= BigBuffer]_vars

\* Five full reads in a row, none of them after a quiet period: the fifth
\* took the buffer over 4096 and it was flushed as one unit of 5120.
C22_Witness ==
  /\ rl.task = "loop" /\ rl.alive /\ rl.chars = 0
  /\ rl.queue = <<[bytes |-> BigBuffer + ReadMax, chars |-> BigBuffer + ReadMax]>>
  /\ rl.now = rl.last
\* A registry operation on session s is in flight.
InFlight(s) == \E c \in Calls : ~Free(c) /\ calls[c].sid = s

\* C23: whenever the live map holds a Session Process for an identifier the
\* persisted status is ACTIVE or a restartSession for it is in progress; once
\* all operations on the identifier have completed no process is left in the
\* live map of a session whose status is TERMINATED.
C23_LiveOnlyWhileActive ==
  \A s \in Sids :
    /\ sessions[s] # 0
         => \/ db[s].status = "active"
            \/ \E c \in Calls : ~Free(c) /\ calls[c].op = "restart" /\ calls[c].sid = s
    /\ ~InFlight(s) => ~(sessions[s] # 0 /\ db[s].status = "terminated")

Classified == Strip(doc.lines)

\* A cue of the confirmation rule: yes / no / confirm / proceed / continue
\* somewhere, or a question mark at the end.
ConfirmationCue(ls) ==
  \/ \E i \in DOMAIN ls : LineTable[ls[i]].cue
  \/ ls # <<>> /\ LineTable[ls[Len(ls)]].q

\* The category is that of the first rule that matches, in the order PROMPT,
\* CONFIRMATION, ERROR, WORKING, COMPLETE, else INFO; a blank text is INFO;
\* classifying the same text again gives the same category.
FirstMatchingRule ==
  LET t == Classified
      r1 == Cardinality({i \in DOMAIN t : LineTable[t[i]].opt}) >= 2
      r2 == TextLen(t) < 500 /\ ConfirmationCue(t)
      r3 == \E i \in DOMAIN t : LineTable[t[i]].err
      r4 == \E i \in DOMAIN t : LineTable[t[i]].work > 0 /\ CharsUpTo(t, i - 1) + LineTable[t[i]].work <= 100
      r5 == \E i \in DOMAIN t : LineTable[t[i]].done
  IN /\ doc.cat \in Categories
     /\ doc.cat = classify_response(doc.lines)
     /\ doc.cat = "PROMPT" <=> r1
     /\ doc.cat = "CONFIRMATION" <=> ~r1 /\ r2
     /\ doc.cat = "ERROR" <=> ~r1 /\ ~r2 /\ r3
     /\ doc.cat = "WORKING" <=> ~r1 /\ ~r2 /\ ~r3 /\ r4
     /\ doc.cat = "COMPLETE" <=> ~r1 /\ ~r2 /\ ~r3 /\ ~r4 /\ r5
     /\ doc.cat = "INFO" <=> ~r1 /\ ~r2 /\ ~r3 /\ ~r4 /\ ~r5
     /\ TextLen(t) = 0 => doc.cat = "INFO"

\* A short text with an error keyword and no confirmation cue.
ShortErrorText ==
  /\ TextLen(Classified) < 500
  /\ \E i \in DOMAIN Classified : LineTable[Classified[i]].err
  /\ ~ConfirmationCue(Classified)

\* C25 as stated: classify gives every text one category, the same for
\* equal texts, that of the first matching rule in the fixed order; a blank
\* text gives INFO; a short text with an error keyword and no confirmation
\* cue gives ERROR.
C25_FirstRuleAndShortError ==
  doc.cat # "none" => /\ FirstMatchingRule
                      /\ ShortErrorText => doc.cat = "ERROR"

\* C25, amended: as above, but a short text with an error keyword and no
\* confirmation cue gives ERROR only if it has fewer than two
\* numbered-option lines; with two it is a PROMPT, by the first rule.
C25_FirstRuleAndShortErrorNoMenu ==
  doc.cat # "none" => /\ FirstMatchingRule
                      /\ ShortErrorText /\ ~has_numbered_options(Classified) => doc.cat = "ERROR"

C25_Witness == doc.cat = "ERROR" /\ doc.lines = <<1, 7>>

\* C26: whenever classify gives a text PROMPT, extractPrompt gives for the
\* same text a ParsedPrompt (not none) with at least two options.
C26_PromptHasTwoOptions ==
  doc.cat = "PROMPT" /\ doc.parsed => doc.prompt.found /\ Len(doc.prompt.options) >= 2

\* C27: sanitizing is idempotent: sanitizing the sanitized string again
\* changes nothing, for every string over the terminal alphabet.
C27_SanitizeIdempotent == tx.done => sanitize(tx.clean) = tx.clean

\* The labels of the numbered option lines of a text, in order.
RECURSIVE Labels(_)
Labels(ls) ==
  IF ls = <<>> THEN <<>>
  ELSE IF LineTable[Head(ls)].label # 0
       THEN <<LineTable[Head(ls)].label>> \o Labels(Tail(ls))
       ELSE Labels(Tail(ls))

Distinct(q) == \A i, j \in DOMAIN q : q[i] = q[j] => i = j

\* C28: the option labels of a ParsedPrompt are pairwise distinct and the
\* options are in the order of their lines in the text; for a text whose
\* numbered option lines repeat a label extractPrompt returns none.
C28_DistinctLabelsInOrder ==
  doc.parsed =>
    /\ doc.prompt.found =>
         /\ Distinct([i \in DOMAIN doc.prompt.options |-> doc.prompt.options[i].number])
         /\ \E f \in [DOMAIN doc.prompt.options -> DOMAIN doc.lines] :
              /\ \A i \in DOMAIN f : doc.lines[f[i]] = doc.prompt.options[i].text
              /\ \A i, j \in DOMAIN f : i < j => f[i] < f[j]
    /\ ~Distinct(Labels(doc.lines)) => ~doc.prompt.found

\* C29: every Output Unit the read loop puts on the queue is fully
\* sanitized, however the program's output was split into reads: sanitizing
\* the unit again changes nothing, also when an escape sequence lies across
\* two reads.
C29_UnitsSanitized == \A i \in DOMAIN rd.queue : sanitize(rd.queue[i]) = rd.queue[i]

\* The concatenation of a sequence of strings.
RECURSIVE Flat(_)
Flat(q) == IF q = <<>> THEN <<>> ELSE Head(q) \o Flat(Tail(q))

\* The sanitized texts of the reads, in read order.
SanitizedChunks == [i \in DOMAIN rd.chunks |-> sanitize(rd.chunks[i])]

\* C30: every chunk read is sanitized, added to the buffer and resets the
\* time of the last successful read; so the units flushed and the buffer
\* hold the sanitized chunks in read order, and when a process that was not
\* terminated has exited the flushed units together are the sanitized chunks
\* together, none dropped.
C30_NoChunkDropped ==
  /\ rd.fresh
  /\ rd.task = "loop" => Flat(rd.queue) \o rd.buffer = Flat(SanitizedChunks)
  /\ rd.task = "done" => Flat(rd.queue) = Flat(SanitizedChunks)

\* A pass of the read loop that finds the process exited.
ExitPass ==
  /\ cp.task = "reading" /\ ~cp.cancelReq /\ cp.process = "exited"
  /\ cp'.task # cp.task

\* What a step read from the terminal.
ReadNow == SubSeq(pty.pending, 1, Len(pty.pending) - Len(pty'.pending))

\* The text of the buffer went to the queue in this step.
BufferFlushed ==
  /\ Len(flushed') > Len(flushed)
  /\ SubSeq(flushed'[Len(flushed) + 1], 1, Len(cp.buffer)) = cp.buffer

\* The pass that finds the process exited reads once more, adds what it got
\* to the buffer, puts the buffer on the queue if it is not empty, and ends
\* the loop.
FinalPass ==
  ExitPass =>
    /\ cp'.task = "done" /\ cp'.buffer = <<>>
    /\ Len(pty'.pending) <= Len(pty.pending)
    /\ pty'.pending = SubSeq(pty.pending, Len(ReadNow) + 1, Len(pty.pending))
    /\ Flat(flushed') = Flat(flushed) \o cp.buffer \o ReadNow
    /\ \A i \in DOMAIN flushed' : flushed'[i] # <<>>
    /\ cp'.queue = cp.queue \o SubSeq(flushed', Len(flushed) + 1, Len(flushed'))

EmptyReadPass ==
  /\ cp.task = "reading" /\ ~cp.cancelReq /\ cp.process # "exited"
  /\ cp'.task # cp.task
  /\ pty'.pending = pty.pending

\* C32: a failed or empty read in the read loop does not stop the loop and
\* adds nothing to the buffer or the queue (the flush test of the pass sees
\* the buffer as it was, and a flush moves exactly that buffer to the queue);
\* the loop sleeps and reads again, and it ends only when the process has
\* exited or its task is cancelled.
C32_EmptyReadKeepsLoop ==
  [][/\ EmptyReadPass =>
          /\ cp'.task = "sleeping"
          /\ \/ cp'.buffer = cp.buffer /\ cp'.queue = cp.queue
             \/ /\ cp.buffer # <<>> /\ cp'.buffer = <<>>
                /\ cp'.queue = Append(cp.queue, cp.buffer)
     /\ cp.task = "sleeping" /\ cp'.task # cp.task /\ ~cp.cancelReq => cp'.task = "reading"
     /\ cp.task \in {"reading", "sleeping"} /\ cp'.task = "done"
          => cp.process = "exited" \/ cp.cancelReq]_vars

C32_Witness ==
  /\ cp.task = "sleeping" /\ cp.process = "running" /\ ~cp.cancelReq
  /\ cp.buffer = <<1>> /\ cp.queue = <<>> /\ pty.pending = <<2>>

\* C33: no read or write is performed on a terminal descriptor once the
\* Session Process that owns it has released it: a background read or a
\* send_input write in flight at the release never acts on the closed
\* number, nor on the number reused by another Session Process.
C33_NoUseAfterRelease == \A a \in fdx.acts : a[2] = "own"

\* C34: after any sequence of createSession, setActiveSession,
\* terminateSession and restartSession calls every owner's active-session
\* selection, if set, names a session that has an entry in the live map; it
\* never points at a session that was terminated.
C34_ActiveIsLive ==
  (\A c \in Calls : calls[c].pc \in {"idle", "done"})
    => \A u \in Users : active[u] # 0 => sessions[active[u]] # 0

\* C35: a readOutput in progress when the process exits does not end its
\* sequence before the final flush of the read loop: it does not leave on
\* the exit test while the loop, not cancelled, still holds buffered text
\* that its exit pass will enqueue as the final Output Unit.
C35_ReaderOutlastsFinalFlush ==
  [][(/\ snd.pc = "stream" /\ snd'.pc = "done"
      /\ ~TimedOut(snd.elapsed)
      /\ cp.process = "exited" /\ ~cp.cancelReq)
       => ~(cp.task \in {"reading", "sleeping"} /\ cp.buffer # <<>>)]_vars

\* start() has failed in the launch of the program, after pty.openpty().
LaunchFailed ==
  /\ cp.started /\ cp.process = "none"
  /\ cp.master # "none" \/ cp.masterCloses > 0

\* C36: when start fails because the program cannot be launched after the
\* terminal pair was allocated, neither descriptor of the pair is open
\* afterwards, whether or not terminate is then called on the process.
C36_NoDescriptorAfterFailedLaunch ==
  LaunchFailed => ~cp.masterOpen /\ ~cp.slaveOpen

\* A step of the coroutine in slot c, which runs terminate_session,
\* restart_session or send_message (the flag ovl is history, not a step).
FrameStep(c) ==
  /\ calls'[c].op \in {"terminate", "restart", "send"}
  /\ [calls'[c] EXCEPT !.ovl = calls[c].ovl] # calls[c]

\* C37: terminateSession(id), restartSession(id) and sendMessage(id) leave
\* unchanged the live-map entry and the persisted record of every session
\* other than id and the process object (with its output queue) of every
\* other session, and leave unchanged the active selection of every owner
\* whose selection is not id.
C37_OtherSessionsUntouched ==
  [][\A c \in Calls :
       FrameStep(c) =>
         /\ \A s \in Sids \ {calls'[c].sid} :
              sessions'[s] = sessions[s] /\ db'[s] = db[s]
         /\ \A p \in Procs :
              procs'[p] # procs[p]
                => procs'[p].sid = calls'[c].sid /\ procs[p].sid \in {0, calls'[c].sid}
         /\ \A u \in Users : active[u] # calls'[c].sid => active'[u] = active[u]]_vars

\* A terminateSession has returned while another session, created by another
\* owner, is in the live map, selected by its owner and with its record
\* ACTIVE.
C37_Witness ==
  \E c \in Calls, s \in Sids, u \in Users :
    /\ calls[c].op = "terminate" /\ calls[c].pc = "done" /\ calls[c].ret = "true"
    /\ s # calls[c].sid /\ db[calls[c].sid].status = "terminated"
    /\ sessions[s] # 0 /\ active[u] = s /\ db[s].status = "active"

\* The updates the wrapper has finished with.
Handled == {i \in DOMAIN gate.seen : i # gate.cur.id}

\* C38: with an authorized user id configured, an update from any other
\* user id never reaches the wrapped handler (no session is created,
\* switched, terminated, restarted or sent input for it), and an audit-log
\* entry with action "unauthorized_access" and success false is recorded for
\* it.
C38_UnauthorizedRefusedAndAudited ==
  gate.authorized # 0 =>
    \A i \in Handled :
      gate.seen[i].user # gate.authorized
        => /\ i \notin gate.reached
           /\ \A o \in gate.ops : o[1] # i
           /\ \E j \in DOMAIN gate.audit :
                gate.audit[j] = [id |-> i, user |-> gate.seen[i].user,
                                 action |-> "unauthorized_access", success |-> FALSE]

====
